---- MODULE Spec2Model ----
(***************************************************************************)
(* Model of GraphQueryHandler (src/graph_query_handler.py): run_query,     *)
(* _handle_cypher_lookup and _handle_method_explanation, with the three    *)
(* chains (router, cypher, explanation) and the graph store as external    *)
(* collaborators whose every call either returns or raises; of its         *)
(* construction (__init__); and of NeoGraphBuilder (src/graph_builder.py)  *)
(* with the nodes and relationships of the store it writes.                *)
(*                                                                         *)
(* Strings are sequences of atoms.  An atom is one character where the     *)
(* code looks inside the text (strip, lower) and a whole literal where the *)
(* code only stores, compares or concatenates it.                          *)
(***************************************************************************)
EXTENDS Integers, Sequences, FiniteSets, TLC

VARIABLES pc, entry, question, intent, intermediate_steps, retries,
          max_retries, error_message, generated_cypher, source_code,
          result, exc, calls, prompts, execs, completion, handlers,
          responses, db, concise_schema, summaries,
          init_pc, init_calls, init_exc, clock, start_time, duration_seconds,
          driver, nodes, store_relationships, builder_pc, model_files, pending_files,
          todo, repo_id, class_id, builder_exc, reads, builder_calls,
          last_merge

vars == <<pc, entry, question, intent, intermediate_steps, retries,
          max_retries, error_message, generated_cypher, source_code,
          result, exc, calls, prompts, execs, completion, handlers,
          responses, db, concise_schema, summaries,
          init_pc, init_calls, init_exc, clock, start_time, duration_seconds,
          driver, nodes, store_relationships, builder_pc, model_files, pending_files,
          todo, repo_id, class_id, builder_exc, reads, builder_calls,
          last_merge>>

\* The state of the query handler and of what it talks to.
handlerVars ==
    <<pc, entry, question, intent, intermediate_steps, retries,
      max_retries, error_message, generated_cypher, source_code,
      result, exc, calls, prompts, execs, completion, handlers,
      responses, db, concise_schema, summaries,
      init_pc, init_calls, init_exc, clock, start_time, duration_seconds>>

\* The state of the graph builder (src/graph_builder.py) and of the nodes and
\* relationships of the store.
builderVars ==
    <<driver, nodes, store_relationships, builder_pc, model_files, pending_files,
      todo, repo_id, class_id, builder_exc, reads, builder_calls, last_merge>>

\* The state of the construction of the handler.
constructionVars == <<init_pc, init_calls, init_exc>>

\* Invocations that may be in progress on the one handler.
Inv == {1, 2}

\* Largest max_retries a direct caller of _handle_cypher_lookup passes.
MaxBudget == 2

\* Default of the max_retries parameter.
DefaultMaxRetries == 1

\* Most calls of get_concise_schema that are followed, the one of __init__ included.
MaxSchemaCalls == 3

-----------------------------------------------------------------------------
(* Strings *)

Whitespace == {" ", "\t", "\n", "\r", "\f"}

UpperCase == <<"A","B","C","D","E","F","G","H","I","J","K","L","M",
               "N","O","P","Q","R","S","T","U","V","W","X","Y","Z">>

LowerCase == <<"a","b","c","d","e","f","g","h","i","j","k","l","m",
               "n","o","p","q","r","s","t","u","v","w","x","y","z">>

lower_char(c) ==
    IF \E k \in 1..Len(UpperCase) : UpperCase[k] = c
    THEN LowerCase[CHOOSE k \in 1..Len(UpperCase) : UpperCase[k] = c]
    ELSE c

\* str.lower()
lower(s) == [k \in 1..Len(s) |-> lower_char(s[k])]

RECURSIVE lstrip(_)
lstrip(s) ==
    IF s # <<>> /\ Head(s) \in Whitespace THEN lstrip(Tail(s)) ELSE s

RECURSIVE rstrip(_)
rstrip(s) ==
    IF s # <<>> /\ s[Len(s)] \in Whitespace
    THEN rstrip(SubSeq(s, 1, Len(s) - 1))
    ELSE s

\* strip removing leading whitespace only.
strip_leading(s) == lstrip(s)

\* str.strip()
strip(s) == rstrip(lstrip(s))

-----------------------------------------------------------------------------
(* Literals of the source *)

CYPHER_LOOKUP == <<"c","y","p","h","e","r","_","l","o","o","k","u","p">>

METHOD_EXPLANATION ==
    <<"m","e","t","h","o","d","_","e","x","p","l","a","n","a","t","i","o","n">>

ApologyText ==
    <<"I'm sorry, I can only answer questions to find code entities or to explain specific methods.">>

FailedPrefix == <<"Failed to execute a valid query. Last error: ">>

NoSourceText ==
    <<"I found the method, but I couldn't retrieve its source code to explain.">>

ErrorOccurredPrefix ==
    <<"An error occurred. I may have generated a bad query to find the method. Error: ">>

StatusSuccess == <<"Success">>

StatusRetrieved == <<"Source code retrieved successfully.">>

\* example_text of _handle_cypher_lookup: the three few-shot examples joined.
example_text == <<"Question: ... Cypher: ... (3 examples)">>

-----------------------------------------------------------------------------
(* Behaviours of the collaborators *)

Questions == { <<"List all classes.">>, <<"Explain calculatePremium.">> }

\* Completions of router_chain.
RouterOutputs ==
    { CYPHER_LOOKUP,
      <<" ","C","y","p","h","e","r","_","L","O","O","K","U","P","\n">>,
      METHOD_EXPLANATION,
      <<"\t","M","E","T","H","O","D","_","E","x","p","l","a","n","a","t","i","o","n"," ">>,
      CYPHER_LOOKUP \o <<".">>,
      <<"1","."," ">> \o METHOD_EXPLANATION,
      <<"c","y","p","h","e","r"," ","l","o","o","k","u","p">>,
      <<"\n">> }

\* The code-fence marker of Markdown, three grave accents, as one atom.
Fence == "[three grave accents]"

\* Completions of cypher_chain: bare, padded with whitespace, and wrapped in
\* a code fence.
CypherOutputs ==
    { <<"MATCH (m:Method) RETURN m.name">>,
      <<" ", "MATCH (m:Method) RETURN m.mthod", "\n">>,
      <<Fence, "cypher", "\n", "MATCH (m:Method) RETURN m.name", "\n", Fence, "\n">> }

\* Completions of explanation_chain.
ExplanationOutputs == { <<"The method computes the premium.">> }

\* Messages of the exceptions a chain raises.
ModelErrors == { <<"model backend unreachable">> }

\* Row lists graph.query returns.
GraphRows ==
    { <<>>,
      << [ClassName |-> <<"UserService">>] >>,
      << [ClassName |-> <<"UserService">>], [ClassName |-> <<"PolicyService">>] >>,
      << [source_code |-> <<"def calculatePremium(): ...">>] >>,
      << [source_code |-> <<>>] >> }

\* Messages of the exceptions graph.query raises.
GraphErrors == { <<"unknown property: mthod">>, <<"syntax error">> }

\* States of the graph store as far as db.labels() and db.relationshipTypes()
\* show them, in the order the store lists them.
StoreStates ==
    { [labels |-> <<"Class", "Method">>, rels |-> <<"HAS_METHOD">>],
      [labels |-> <<"Class">>, rels |-> <<>>],
      [labels |-> <<"Repository", "Class">>, rels |-> <<"HAS_CLASSES", "DEPENDS_ON">>] }

-----------------------------------------------------------------------------
(* Values *)

NoResult == [kind |-> "none", rows |-> <<>>, text |-> <<>>]

RowsResult(r) == [kind |-> "rows", rows |-> r, text |-> <<>>]

TextResult(t) == [kind |-> "text", rows |-> <<>>, text |-> t]

Step(k, v) == [key |-> k, value |-> v]

Prompt(sch, ex, q, corr) ==
    [schema |-> sch, examples |-> ex, question |-> q, error_correction |-> corr]

Resp(o, okay, t, r) == [op |-> o, ok |-> okay, text |-> t, rows |-> r]

Summary(d, out) == [labels |-> d.labels, rels |-> d.rels, out |-> out]

Exec(q, okay, r, e) == [query |-> q, ok |-> okay, rows |-> r, error |-> e]

\* The calls __init__ makes inside its try block, in order: the graph
\* connection, the two metadata queries of get_concise_schema, the model
\* client and the three chains.
InitSteps ==
    <<"Neo4jGraph", "db.labels", "db.relationshipTypes", "Ollama", "chains">>

\* Messages of the exceptions these calls raise.
InitErrors ==
    { <<"Could not connect to Neo4j database.">>, <<"model not found">> }

NoException == [type |-> "none", message |-> <<>>]

\* Readings of time.time(), in milliseconds.
ClockValues == {0, 617}

\* round(x, 2) of x = ms / 1000 seconds, in hundredths of a second: to the
\* nearest hundredth, a tie going to the even one.
round2(ms) ==
    LET q == ms \div 10
        r == ms % 10
    IN  IF r > 5 \/ (r = 5 /\ q % 2 = 1) THEN q + 1 ELSE q

-----------------------------------------------------------------------------
(* The graph builder: values *)

\* Most calls of the builder's methods that are followed after __init__.
MaxBuilderCalls == 3

\* dict.get(key, default)
get(d, key, default) == IF key \in DOMAIN d THEN d[key] ELSE default

\* str.replace(c, '') for a single character c
remove(s, c) == SelectSeq(s, LAMBDA x : x # c)

RECURSIVE lstrip_chars(_, _)
lstrip_chars(s, chars) ==
    IF s # <<>> /\ Head(s) \in chars THEN lstrip_chars(Tail(s), chars) ELSE s

RECURSIVE rstrip_chars(_, _)
rstrip_chars(s, chars) ==
    IF s # <<>> /\ s[Len(s)] \in chars
    THEN rstrip_chars(SubSeq(s, 1, Len(s) - 1), chars)
    ELSE s

\* str.strip(chars)
strip_chars(s, chars) == rstrip_chars(lstrip_chars(s, chars), chars)

\* str.split(sep)[-1] for a single character sep: what follows the last sep.
split_last(s, sep) ==
    LET at == { k \in 1..Len(s) : s[k] = sep }
    IN  IF at = {} THEN s
        ELSE SubSeq(s, (CHOOSE k \in at : \A m \in at : m <= k) + 1, Len(s))

\* The JSON model files of two repositories.  Both have a class UserService
\* with a method validateUser, with different sources; the second is the
\* repository the first depends on.
FileApp ==
    [Name |-> <<"A","p","p">>,
     DependentRepositories |-> << <<"C","o","r","e">> >>,
     Controllers |-> << [Name |-> <<"\"","A","p","i","\"">>] >>,
     ClassDetails |->
        << [ClassName |-> <<"UserService">>,
            FilePath |-> <<"App/UserService.cs">>,
            ClassSourceCode |-> <<"class UserService { ... }">>,
            StoredProcedure |-> << <<"[","d","b","o","]",".","[","u","s","p","]">> >>,
            Methods |->
               << [MethodName |-> <<"validateUser">>,
                   MethodSourceCode |-> <<"bool validateUser() { ... }">>,
                   MethodReturnType |-> <<"bool">>] >>] >>]

FileCore ==
    [Name |-> <<"c","o","r","e">>,
     ClassDetails |->
        << [ClassName |-> <<"UserService">>,
            FilePath |-> <<"Core/UserService.cs">>,
            ClassSourceCode |-> <<"class UserService { }">>,
            Methods |->
               << [MethodName |-> <<"validateUser">>,
                   MethodSourceCode |-> <<"validateUser() { }">>] >>] >>]

\* The lists of model files run_build_process is called with.
ModelFileLists == { <<FileApp>>, <<FileApp, FileCore>> }

\* Messages of the exceptions the store raises to the builder.
StoreErrors == { <<"ServiceUnavailable">> }

\* asdict of the node dataclasses.
RepoNode(name) == [name |-> name, type |-> "Repository"]

ControllerNode(name) == [name |-> name, type |-> "Controller"]

StoredProcedureNode(name) == [name |-> name, type |-> "StoredProcedure"]

ClassNode(name, file_path, source, ds) ==
    [name |-> name, type |-> "Class", file_path |-> file_path,
     source |-> source, ds |-> ds]

MethodNode(name, source, return_type) ==
    [name |-> name, type |-> "Method", source |-> source,
     return_type |-> return_type]

\* One pass of a loop body of run_build_process: the node to create or
\* update, the local variable its id is kept in, and the relationship made
\* to it from the node whose id the variable parent holds.
Item(node, keep, parent, rel) ==
    [node |-> node, keep |-> keep, parent |-> parent, rel |-> rel]

RECURSIVE flatten(_)
flatten(seqs) == IF seqs = <<>> THEN <<>> ELSE Head(seqs) \o flatten(Tail(seqs))

\* run_build_process: the passes for one class, its stored procedures and its
\* methods.
ClassItems(class_item) ==
    LET sps == get(class_item, "StoredProcedure", <<>>)
        methods == get(class_item, "Methods", <<>>)
    IN  << Item(ClassNode(class_item.ClassName, class_item.FilePath,
                          class_item.ClassSourceCode, methods # <<>>),
                "class", "repo", "HAS_CLASSES") >>
        \o [k \in 1..Len(sps) |->
              Item(StoredProcedureNode(
                       split_last(strip_chars(sps[k], {"[", "]", "\"", "'", " "}), ".")),
                   "none", "class", "CALLS_SP")]
        \o [k \in 1..Len(methods) |->
              Item(MethodNode(methods[k].MethodName, methods[k].MethodSourceCode,
                              get(methods[k], "MethodReturnType", <<"void">>)),
                   "none", "class", "HAS_METHOD")]

\* run_build_process: the passes for one model file, in the order of the code.
FileItems(model_dict) ==
    LET deps == get(model_dict, "DependentRepositories", <<>>)
        ctrls == get(model_dict, "Controllers", <<>>)
        classes == get(model_dict, "ClassDetails", <<>>)
    IN  << Item(RepoNode(lower(model_dict.Name)), "repo", "none", "") >>
        \o [k \in 1..Len(deps) |->
              Item(RepoNode(lower(deps[k])), "none", "repo", "DEPENDS_ON")]
        \o [k \in 1..Len(ctrls) |->
              Item(ControllerNode(remove(ctrls[k].Name, "\"")),
                   "none", "repo", "HAS_ROUTES")]
        \o flatten([k \in 1..Len(classes) |-> ClassItems(classes[k])])

\* A node of the store; its id is its position in nodes.
StoreNode(label, properties) == [label |-> label, properties |-> properties]

\* The nodes MERGE (n:label {name: ..., type: ...}) matches.
Matching(ns, label, properties) ==
    { k \in 1..Len(ns) :
          /\ ns[k].label = label
          /\ "name" \in DOMAIN ns[k].properties
          /\ "type" \in DOMAIN ns[k].properties
          /\ ns[k].properties.name = properties.name
          /\ ns[k].properties.type = properties.type }

\* SET n += properties
Updated(old, properties) ==
    [p \in DOMAIN old \cup DOMAIN properties |->
        IF p \in DOMAIN properties THEN properties[p] ELSE old[p]]

\* _create_or_update_node with CREATE in place of MERGE.
create_node_always(ns, node_obj) ==
    [nodes |-> Append(ns, StoreNode(node_obj.type, node_obj)),
     node_id |-> Len(ns) + 1]

\* _create_or_update_node: the nodes of the store after the MERGE query and
\* the id it returns.
create_or_update_node(ns, node_obj) ==
    LET label == node_obj.type
        found == Matching(ns, label, node_obj)
    IN  IF found = {}
        THEN [nodes |-> Append(ns, StoreNode(label, node_obj)),
              node_id |-> Len(ns) + 1]
        ELSE [nodes |-> [k \in 1..Len(ns) |->
                            IF k \in found
                            THEN StoreNode(ns[k].label,
                                           Updated(ns[k].properties, node_obj))
                            ELSE ns[k]],
              node_id |-> CHOOSE k \in found : \A m \in found : k <= m]

Relationship(from_id, type, to_id) == [from |-> from_id, type |-> type, to |-> to_id]

\* create_relationship with CREATE in place of MERGE.
create_relationship_always(rs, ns, from_id, to_id, relationship) ==
    IF from_id \in 1..Len(ns) /\ to_id \in 1..Len(ns)
    THEN Append(rs, Relationship(from_id, relationship, to_id))
    ELSE rs

\* create_relationship: the relationships of the store after the query.
create_relationship(rs, ns, from_id, to_id, relationship) ==
    IF from_id \in 1..Len(ns) /\ to_id \in 1..Len(ns)
         /\ \A k \in 1..Len(rs) : rs[k] # Relationship(from_id, relationship, to_id)
    THEN Append(rs, Relationship(from_id, relationship, to_id))
    ELSE rs

\* A node another client of the store created, with a property the builder
\* does not know.
LegacyNode ==
    StoreNode("Class",
              [name |-> <<"UserService">>, type |-> "Class", owner |-> <<"legacy">>])

NoMerge ==
    [made |-> FALSE, node_obj |-> RepoNode(<<>>), before |-> <<>>,
     after |-> <<>>, node_id |-> 0]

\* The record of a call of a builder method: whether it raised, and the store
\* when it ended.
BuilderCall(op, files, raised, ns, rs) ==
    [op |-> op, files |-> files, raised |-> raised, nodes |-> ns,
     relationships |-> rs]

-----------------------------------------------------------------------------
(* The schema summary *)

\* graph.query("CALL db.labels() YIELD label RETURN label")
LabelRows(d) == [k \in 1..Len(d.labels) |-> [label |-> d.labels[k]]]

\* graph.query("CALL db.relationshipTypes() YIELD relationshipType RETURN relationshipType")
RelationshipRows(d) ==
    [k \in 1..Len(d.rels) |-> [relationshipType |-> d.rels[k]]]

\* sep.join(items)
RECURSIVE join(_, _)
join(sep, items) ==
    IF items = <<>> THEN <<>>
    ELSE IF Len(items) = 1 THEN items[1]
    ELSE items[1] \o sep \o join(sep, Tail(items))

\* get_concise_schema with a curated relationship added to what the store lists.
get_concise_schema_curated(node_labels, relationships) ==
    <<"Node Labels:", "\n">>
        \o join(<<"\n">>, [k \in 1..Len(node_labels) |-> <<"- ", node_labels[k].label>>])
        \o <<"\n", "\n", "Relationships:", "\n">>
        \o join(<<"\n">>, [k \in 1..Len(relationships) + 1 |->
                              IF k <= Len(relationships)
                              THEN <<"- ", relationships[k].relationshipType>>
                              ELSE <<"- ", "HAS_METHOD">>])

\* get_concise_schema: the summary built from the rows of the two metadata queries.
get_concise_schema(node_labels, relationships) ==
    <<"Node Labels:", "\n">>
        \o join(<<"\n">>, [k \in 1..Len(node_labels) |-> <<"- ", node_labels[k].label>>])
        \o <<"\n", "\n", "Relationships:", "\n">>
        \o join(<<"\n">>, [k \in 1..Len(relationships) |->
                              <<"- ", relationships[k].relationshipType>>])

-----------------------------------------------------------------------------
\* The state after __init__ succeeded against a store in any of its states.
Init ==
    /\ pc = [i \in Inv |-> "idle"]
    /\ entry = [i \in Inv |-> "none"]
    /\ question = [i \in Inv |-> <<>>]
    /\ intent = [i \in Inv |-> <<>>]
    /\ intermediate_steps = [i \in Inv |-> <<>>]
    /\ retries = [i \in Inv |-> 0]
    /\ max_retries = [i \in Inv |-> 0]
    /\ error_message = [i \in Inv |-> <<>>]
    /\ generated_cypher = [i \in Inv |-> <<>>]
    /\ source_code = [i \in Inv |-> <<>>]
    /\ result = [i \in Inv |-> NoResult]
    /\ exc = [i \in Inv |-> <<>>]
    /\ calls = [i \in Inv |-> <<>>]
    /\ prompts = [i \in Inv |-> <<>>]
    /\ execs = [i \in Inv |-> <<>>]
    /\ completion = [i \in Inv |-> <<>>]
    /\ handlers = [i \in Inv |-> <<>>]
    /\ responses = [i \in Inv |-> <<>>]
    /\ db \in StoreStates
    /\ concise_schema = get_concise_schema(LabelRows(db), RelationshipRows(db))
    /\ summaries =
           << Summary(db, get_concise_schema(LabelRows(db), RelationshipRows(db))) >>
    /\ init_pc = "ready"
    /\ init_calls = [k \in 1..Len(InitSteps) |-> [op |-> InitSteps[k], ok |-> TRUE]]
    /\ init_exc = NoException
    /\ clock = 0
    /\ start_time = [i \in Inv |-> <<>>]
    /\ duration_seconds = [i \in Inv |-> <<>>]
    /\ driver = "unset"
    /\ nodes = <<>>
    /\ store_relationships = <<>>
    /\ builder_pc = "idle"
    /\ model_files = <<>>
    /\ pending_files = <<>>
    /\ todo = <<>>
    /\ repo_id = 0
    /\ class_id = 0
    /\ builder_exc = <<>>
    /\ reads = <<>>
    /\ builder_calls = <<>>
    /\ last_merge = NoMerge

\* The state when __init__ is entered, against a store in any of its states.
InitConstruct ==
    /\ pc = [i \in Inv |-> "idle"]
    /\ entry = [i \in Inv |-> "none"]
    /\ question = [i \in Inv |-> <<>>]
    /\ intent = [i \in Inv |-> <<>>]
    /\ intermediate_steps = [i \in Inv |-> <<>>]
    /\ retries = [i \in Inv |-> 0]
    /\ max_retries = [i \in Inv |-> 0]
    /\ error_message = [i \in Inv |-> <<>>]
    /\ generated_cypher = [i \in Inv |-> <<>>]
    /\ source_code = [i \in Inv |-> <<>>]
    /\ result = [i \in Inv |-> NoResult]
    /\ exc = [i \in Inv |-> <<>>]
    /\ calls = [i \in Inv |-> <<>>]
    /\ prompts = [i \in Inv |-> <<>>]
    /\ execs = [i \in Inv |-> <<>>]
    /\ completion = [i \in Inv |-> <<>>]
    /\ handlers = [i \in Inv |-> <<>>]
    /\ responses = [i \in Inv |-> <<>>]
    /\ db \in StoreStates
    /\ concise_schema = <<>>
    /\ summaries = <<>>
    /\ init_pc = "Neo4jGraph"
    /\ init_calls = <<>>
    /\ init_exc = NoException
    /\ clock = 0
    /\ start_time = [i \in Inv |-> <<>>]
    /\ duration_seconds = [i \in Inv |-> <<>>]
    /\ driver = "unset"
    /\ nodes = <<>>
    /\ store_relationships = <<>>
    /\ builder_pc = "idle"
    /\ model_files = <<>>
    /\ pending_files = <<>>
    /\ todo = <<>>
    /\ repo_id = 0
    /\ class_id = 0
    /\ builder_exc = <<>>
    /\ reads = <<>>
    /\ builder_calls = <<>>
    /\ last_merge = NoMerge

-----------------------------------------------------------------------------
(* Decisions of the code *)

\* Classify with the case folding left out.
ClassifyNoLower(out) == strip(out)

\* run_query: the intent is the router completion, stripped and lowercased.
Classify(out) == lower(strip(out))

\* Route with the else branch falling through to the lookup handler.
RouteDefaultLookup(it) ==
    IF it = METHOD_EXPLANATION THEN "explanation" ELSE "lookup"

\* run_query: the if / elif / else over the intent.
Route(it) ==
    IF it = METHOD_EXPLANATION THEN "explanation"
    ELSE IF it = CYPHER_LOOKUP THEN "lookup"
    ELSE "unknown"

\* FirstSteps going on from the log that the last finished invocation left.
FirstStepsKept(it) ==
    (IF \E j \in Inv : pc[j] \in {"done", "raised"}
     THEN intermediate_steps[CHOOSE j \in Inv : pc[j] \in {"done", "raised"}]
     ELSE <<>>)
        \o <<Step("recognized_intent", it)>>

\* run_query: the fresh list that starts the log of an invocation.
FirstSteps(it) == <<Step("recognized_intent", it)>>

\* LoopContinues allowing one more pass.
LoopContinuesOneMore(r, m) == r <= m + 1

\* LoopContinues with a strict comparison.
LoopContinuesStrict(r, m) == r < m

\* _handle_cypher_lookup: the condition of the while loop.
LoopContinues(r, m) == r <= m

\* ErrorCorrection feeding the previous query and error back.
ErrorCorrectionFeedback(gen, err) == gen \o err

\* _handle_cypher_lookup: the error_correction input of the generation call.
ErrorCorrection(gen, err) == <<>>

\* SuccessStatus treating an empty row list as a failure.
SuccessStatusNonEmpty(rows) ==
    IF rows = <<>> THEN <<"Failed">> ELSE StatusSuccess

\* _handle_cypher_lookup: the status appended after graph.query returned.
SuccessStatus(rows) == StatusSuccess

\* LookupResult returning the first row only.
LookupResultFirstRow(rows) ==
    RowsResult(IF rows = <<>> THEN <<>> ELSE <<rows[1]>>)

\* _handle_cypher_lookup: the result returned after graph.query returned.
LookupResult(rows) == RowsResult(rows)

\* CaughtMessage keeping the first error.
CaughtMessageFirst(old, e) == IF old = <<>> THEN e ELSE old

\* _handle_cypher_lookup: error_message after graph.query raised e.
CaughtMessage(old, e) == e

\* _handle_cypher_lookup: the text returned when the loop is left.
FailureText(err) == FailedPrefix \o err

\* _handle_method_explanation: not code_data or 'source_code' not in code_data[0].
MissingSource(code_data) ==
    code_data = <<>> \/ "source_code" \notin DOMAIN code_data[1]

\* _handle_method_explanation: the text returned from the except branch.
ErrorOccurredText(e) == ErrorOccurredPrefix \o e

-----------------------------------------------------------------------------
(* Operations *)

\* __init__ returned: the caller holds a handler.
Constructed == init_pc = "ready"

\* The step of __init__ after step p.
NextInitStep(p) ==
    IF p = "Neo4jGraph" THEN "db.labels"
    ELSE IF p = "db.labels" THEN "db.relationshipTypes"
    ELSE IF p = "db.relationshipTypes" THEN "Ollama"
    ELSE IF p = "Ollama" THEN "chains"
    ELSE "ready"

\* __init__: the exception raised from the except branch for the caught e.
InitFailure(e) ==
    [type |-> "ConnectionError",
     message |-> <<"Failed to initialize GraphQueryHandler: ">> \o e]

\* __init__: the pending call returns; after the second metadata query the
\* summary is built and assigned to concise_schema.
ConstructReturns ==
    /\ init_pc \notin {"ready", "failed"}
    /\ init_calls' = Append(init_calls, [op |-> init_pc, ok |-> TRUE])
    /\ init_pc' = NextInitStep(init_pc)
    /\ IF init_pc = "db.relationshipTypes"
       THEN /\ concise_schema' = get_concise_schema(LabelRows(db), RelationshipRows(db))
            /\ summaries' = Append(summaries, Summary(db, concise_schema'))
       ELSE UNCHANGED <<concise_schema, summaries>>
    /\ UNCHANGED <<pc, entry, question, intent, intermediate_steps, retries,
                   max_retries, error_message, generated_cypher, source_code,
                   result, exc, calls, prompts, execs, completion, handlers,
                   responses, db, init_exc, clock, start_time, duration_seconds>>
    /\ UNCHANGED builderVars

\* ConstructRaises going on without a summary when a metadata query fails.
ConstructRaisesDegraded(e) ==
    /\ init_pc \notin {"ready", "failed"}
    /\ init_calls' = Append(init_calls, [op |-> init_pc, ok |-> FALSE])
    /\ IF init_pc \in {"db.labels", "db.relationshipTypes"}
       THEN /\ init_pc' = "Ollama"
            /\ UNCHANGED init_exc
       ELSE /\ init_pc' = "failed"
            /\ init_exc' = InitFailure(e)
    /\ UNCHANGED <<pc, entry, question, intent, intermediate_steps, retries,
                   max_retries, error_message, generated_cypher, source_code,
                   result, exc, calls, prompts, execs, completion, handlers,
                   responses, db, concise_schema, summaries, clock,
                   start_time, duration_seconds>>
    /\ UNCHANGED builderVars

\* __init__: the pending call raises e; the except branch raises
\* ConnectionError and the caller gets no handler.
ConstructRaises(e) ==
    /\ init_pc \notin {"ready", "failed"}
    /\ init_calls' = Append(init_calls, [op |-> init_pc, ok |-> FALSE])
    /\ init_pc' = "failed"
    /\ init_exc' = InitFailure(e)
    /\ UNCHANGED <<pc, entry, question, intent, intermediate_steps, retries,
                   max_retries, error_message, generated_cypher, source_code,
                   result, exc, calls, prompts, execs, completion, handlers,
                   responses, db, concise_schema, summaries, clock,
                   start_time, duration_seconds>>
    /\ UNCHANGED builderVars

\* time.time() reads another value: time passed, or the wall clock was set.
ClockChanges(t) ==
    /\ t # clock
    /\ clock' = t
    /\ UNCHANGED <<pc, entry, question, intent, intermediate_steps, retries,
                   max_retries, error_message, generated_cypher, source_code,
                   result, exc, calls, prompts, execs, completion, handlers,
                   responses, db, concise_schema, summaries, constructionVars, builderVars,
                   start_time, duration_seconds>>

\* StopTimer leaving out the envelope built by run_query's else branch.
StopTimerRoutedOnly(i) ==
    duration_seconds' =
        [duration_seconds EXCEPT
           ![i] = IF entry[i] = "run_query" /\ pc'[i] = "done" /\ handlers'[i] # <<>>
                  THEN <<round2(clock - start_time[i][1])>>
                  ELSE @]

\* run_query: when the handler (or the else branch) has produced the result,
\* the rounded duration is put into the envelope.
StopTimer(i) ==
    duration_seconds' =
        [duration_seconds EXCEPT
           ![i] = IF entry[i] = "run_query" /\ pc'[i] = "done"
                  THEN <<round2(clock - start_time[i][1])>>
                  ELSE @]

\* No other invocation is in progress or holds an envelope.
Alone(i) == \A j \in Inv \ {i} : pc[j] = "idle"

\* run_query is entered: the timer starts and the router is about to be invoked.
RunQuery(i, q) ==
    /\ Constructed
    /\ pc[i] = "idle"
    /\ pc' = [pc EXCEPT ![i] = "router"]
    /\ entry' = [entry EXCEPT ![i] = "run_query"]
    /\ question' = [question EXCEPT ![i] = q]
    /\ UNCHANGED <<intent, intermediate_steps, retries, max_retries,
                   error_message, generated_cypher, source_code, result, exc,
                   calls, prompts, execs>>
    /\ UNCHANGED <<completion, handlers>>
    /\ UNCHANGED <<db, concise_schema, summaries>>
    /\ UNCHANGED responses
    /\ UNCHANGED <<builderVars, constructionVars, clock, duration_seconds>>
    /\ start_time' = [start_time EXCEPT ![i] = <<clock>>]

\* router_chain.invoke returns out; run_query records the intent and routes.
RouterReturns(i, out) ==
    /\ pc[i] = "router"
    /\ LET it == Classify(out)
           to == Route(it)
       IN  /\ intent' = [intent EXCEPT ![i] = it]
           /\ intermediate_steps' = [intermediate_steps EXCEPT ![i] = FirstSteps(it)]
           /\ calls' = [calls EXCEPT ![i] = Append(@, "router")]
           /\ IF to = "explanation"
              THEN /\ handlers' = [handlers EXCEPT ![i] = Append(@, "explanation")]
                   /\ pc' = [pc EXCEPT ![i] = "ex_gen"]
                   /\ UNCHANGED <<retries, max_retries, error_message,
                                  generated_cypher, result>>
              ELSE IF to = "lookup"
              THEN /\ handlers' = [handlers EXCEPT ![i] = Append(@, "lookup")]
                   /\ retries' = [retries EXCEPT ![i] = 0]
                   /\ max_retries' = [max_retries EXCEPT ![i] = DefaultMaxRetries]
                   /\ error_message' = [error_message EXCEPT ![i] = <<>>]
                   /\ generated_cypher' = [generated_cypher EXCEPT ![i] = <<>>]
                   /\ IF LoopContinues(0, DefaultMaxRetries)
                      THEN /\ pc' = [pc EXCEPT ![i] = "lk_gen"]
                           /\ UNCHANGED result
                      ELSE /\ pc' = [pc EXCEPT ![i] = "done"]
                           /\ result' = [result EXCEPT ![i] = TextResult(FailureText(<<>>))]
              ELSE /\ pc' = [pc EXCEPT ![i] = "done"]
                   /\ result' = [result EXCEPT ![i] = TextResult(ApologyText)]
                   /\ UNCHANGED <<retries, max_retries, error_message,
                                  generated_cypher, handlers>>
    /\ completion' = [completion EXCEPT ![i] = out]
    /\ UNCHANGED <<entry, question, source_code, exc, prompts, execs>>
    /\ UNCHANGED <<db, concise_schema, summaries>>
    /\ responses' = [responses EXCEPT ![i] = Append(@, Resp("router", TRUE, out, <<>>))]
    /\ UNCHANGED <<builderVars, constructionVars, clock, start_time>>
    /\ StopTimer(i)

\* router_chain.invoke raises e; nothing in run_query catches it.
RouterRaises(i, e) ==
    /\ pc[i] = "router"
    /\ pc' = [pc EXCEPT ![i] = "raised"]
    /\ exc' = [exc EXCEPT ![i] = e]
    /\ calls' = [calls EXCEPT ![i] = Append(@, "router")]
    /\ UNCHANGED <<entry, question, intent, intermediate_steps, retries,
                   max_retries, error_message, generated_cypher, source_code,
                   result, prompts, execs>>
    /\ UNCHANGED <<completion, handlers>>
    /\ UNCHANGED <<db, concise_schema, summaries>>
    /\ responses' = [responses EXCEPT ![i] = Append(@, Resp("router", FALSE, e, <<>>))]
    /\ UNCHANGED <<builderVars, constructionVars, clock, start_time>>
    /\ StopTimer(i)

\* _handle_cypher_lookup is called directly with a fresh list and max_retries = m.
CallLookup(i, q, m) ==
    /\ Constructed
    /\ pc[i] = "idle"
    /\ entry' = [entry EXCEPT ![i] = "lookup"]
    /\ question' = [question EXCEPT ![i] = q]
    /\ retries' = [retries EXCEPT ![i] = 0]
    /\ max_retries' = [max_retries EXCEPT ![i] = m]
    /\ error_message' = [error_message EXCEPT ![i] = <<>>]
    /\ generated_cypher' = [generated_cypher EXCEPT ![i] = <<>>]
    /\ IF LoopContinues(0, m)
       THEN /\ pc' = [pc EXCEPT ![i] = "lk_gen"]
            /\ UNCHANGED result
       ELSE /\ pc' = [pc EXCEPT ![i] = "done"]
            /\ result' = [result EXCEPT ![i] = TextResult(FailureText(<<>>))]
    /\ handlers' = [handlers EXCEPT ![i] = Append(@, "lookup")]
    /\ UNCHANGED <<intent, intermediate_steps, source_code, exc, calls,
                   prompts, execs, completion>>
    /\ UNCHANGED <<db, concise_schema, summaries>>
    /\ UNCHANGED responses
    /\ UNCHANGED <<builderVars, constructionVars, clock, start_time>>
    /\ StopTimer(i)

\* LookupGenReturns going on to the next generation without executing the query.
LookupGenReturnsSkipExec(i, out) ==
    /\ pc[i] = "lk_gen"
    /\ LET q == strip(out)
       IN  /\ generated_cypher' = [generated_cypher EXCEPT ![i] = q]
           /\ intermediate_steps' =
                  [intermediate_steps EXCEPT
                     ![i] = Append(@, Step("cypher_query_generation_attempt", q))]
    /\ prompts' = [prompts EXCEPT ![i] =
                     Append(@, Prompt(concise_schema, example_text, question[i],
                                      ErrorCorrection(generated_cypher[i],
                                                      error_message[i])))]
    /\ calls' = [calls EXCEPT ![i] = Append(@, "cypher")]
    /\ pc' = [pc EXCEPT ![i] = "lk_gen"]
    /\ UNCHANGED <<entry, question, intent, retries, max_retries,
                   error_message, source_code, result, exc, execs>>
    /\ UNCHANGED <<completion, handlers>>
    /\ UNCHANGED <<db, concise_schema, summaries>>
    /\ responses' = [responses EXCEPT ![i] = Append(@, Resp("cypher", TRUE, out, <<>>))]
    /\ UNCHANGED <<builderVars, constructionVars, clock, start_time>>
    /\ StopTimer(i)

\* LookupGenReturns recomputing the schema summary before it builds the prompt.
LookupGenReturnsRefresh(i, out) ==
    /\ pc[i] = "lk_gen"
    /\ LET q == strip(out)
       IN  /\ generated_cypher' = [generated_cypher EXCEPT ![i] = q]
           /\ intermediate_steps' =
                  [intermediate_steps EXCEPT
                     ![i] = Append(@, Step("cypher_query_generation_attempt", q))]
    /\ concise_schema' = get_concise_schema(LabelRows(db), RelationshipRows(db))
    /\ summaries' = Append(summaries, Summary(db, concise_schema'))
    /\ prompts' = [prompts EXCEPT ![i] =
                     Append(@, Prompt(concise_schema', example_text, question[i],
                                      ErrorCorrection(generated_cypher[i],
                                                      error_message[i])))]
    /\ calls' = [calls EXCEPT ![i] = Append(@, "cypher")]
    /\ responses' = [responses EXCEPT ![i] = Append(@, Resp("cypher", TRUE, out, <<>>))]
    /\ pc' = [pc EXCEPT ![i] = "lk_exec"]
    /\ UNCHANGED <<entry, question, intent, retries, max_retries,
                   error_message, source_code, result, exc, execs>>
    /\ UNCHANGED <<completion, handlers, db>>
    /\ UNCHANGED <<builderVars, constructionVars, clock, start_time>>
    /\ StopTimer(i)

\* LookupGenReturns logging the query in one list shared by the invocations in progress.
LookupGenReturnsSharedLog(i, out) ==
    /\ pc[i] = "lk_gen"
    /\ LET q == strip(out)
       IN  /\ generated_cypher' = [generated_cypher EXCEPT ![i] = q]
           /\ intermediate_steps' =
                  [j \in Inv |->
                     IF pc[j] \in {"idle", "router"} THEN intermediate_steps[j]
                     ELSE Append(intermediate_steps[j],
                                 Step("cypher_query_generation_attempt", q))]
    /\ prompts' = [prompts EXCEPT ![i] =
                     Append(@, Prompt(concise_schema, example_text, question[i],
                                      ErrorCorrection(generated_cypher[i],
                                                      error_message[i])))]
    /\ calls' = [calls EXCEPT ![i] = Append(@, "cypher")]
    /\ responses' = [responses EXCEPT ![i] = Append(@, Resp("cypher", TRUE, out, <<>>))]
    /\ pc' = [pc EXCEPT ![i] = "lk_exec"]
    /\ UNCHANGED <<entry, question, intent, retries, max_retries,
                   error_message, source_code, result, exc, execs>>
    /\ UNCHANGED <<completion, handlers, db, concise_schema, summaries>>
    /\ UNCHANGED <<builderVars, constructionVars, clock, start_time>>
    /\ StopTimer(i)

\* The lookup loop: cypher_chain.invoke returns out; the stripped query is logged.
LookupGenReturns(i, out) ==
    /\ pc[i] = "lk_gen"
    /\ LET q == strip(out)
       IN  /\ generated_cypher' = [generated_cypher EXCEPT ![i] = q]
           /\ intermediate_steps' =
                  [intermediate_steps EXCEPT
                     ![i] = Append(@, Step("cypher_query_generation_attempt", q))]
    /\ prompts' = [prompts EXCEPT ![i] =
                     Append(@, Prompt(concise_schema, example_text, question[i],
                                      ErrorCorrection(generated_cypher[i],
                                                      error_message[i])))]
    /\ calls' = [calls EXCEPT ![i] = Append(@, "cypher")]
    /\ pc' = [pc EXCEPT ![i] = "lk_exec"]
    /\ UNCHANGED <<entry, question, intent, retries, max_retries,
                   error_message, source_code, result, exc, execs>>
    /\ UNCHANGED <<completion, handlers>>
    /\ UNCHANGED <<db, concise_schema, summaries>>
    /\ responses' = [responses EXCEPT ![i] = Append(@, Resp("cypher", TRUE, out, <<>>))]
    /\ UNCHANGED <<builderVars, constructionVars, clock, start_time>>
    /\ StopTimer(i)

\* The lookup loop: cypher_chain.invoke raises e, outside the try block.
LookupGenRaises(i, e) ==
    /\ pc[i] = "lk_gen"
    /\ prompts' = [prompts EXCEPT ![i] =
                     Append(@, Prompt(concise_schema, example_text, question[i],
                                      ErrorCorrection(generated_cypher[i],
                                                      error_message[i])))]
    /\ calls' = [calls EXCEPT ![i] = Append(@, "cypher")]
    /\ pc' = [pc EXCEPT ![i] = "raised"]
    /\ exc' = [exc EXCEPT ![i] = e]
    /\ UNCHANGED <<entry, question, intent, intermediate_steps, retries,
                   max_retries, error_message, generated_cypher, source_code,
                   result, execs>>
    /\ UNCHANGED <<completion, handlers>>
    /\ UNCHANGED <<db, concise_schema, summaries>>
    /\ responses' = [responses EXCEPT ![i] = Append(@, Resp("cypher", FALSE, e, <<>>))]
    /\ UNCHANGED <<builderVars, constructionVars, clock, start_time>>
    /\ StopTimer(i)

\* LookupExecReturns going round the loop again instead of returning the rows
\* at once.
LookupExecReturnsKeepsLooping(i, rows) ==
    /\ pc[i] = "lk_exec"
    /\ execs' = [execs EXCEPT ![i] = Append(@, Exec(generated_cypher[i], TRUE, rows, <<>>))]
    /\ calls' = [calls EXCEPT ![i] = Append(@, "graph")]
    /\ intermediate_steps' =
           [intermediate_steps EXCEPT ![i] = Append(@, Step("status", SuccessStatus(rows)))]
    /\ retries' = [retries EXCEPT ![i] = @ + 1]
    /\ IF LoopContinues(retries[i] + 1, max_retries[i])
       THEN /\ pc' = [pc EXCEPT ![i] = "lk_gen"]
            /\ UNCHANGED result
       ELSE /\ pc' = [pc EXCEPT ![i] = "done"]
            /\ result' = [result EXCEPT ![i] = TextResult(FailureText(error_message[i]))]
    /\ UNCHANGED <<entry, question, intent, max_retries,
                   error_message, generated_cypher, source_code, exc, prompts>>
    /\ UNCHANGED <<completion, handlers>>
    /\ UNCHANGED <<db, concise_schema, summaries>>
    /\ responses' = [responses EXCEPT ![i] = Append(@, Resp("graph", TRUE, <<>>, rows))]
    /\ UNCHANGED <<builderVars, constructionVars, clock, start_time>>
    /\ StopTimer(i)

\* LookupExecReturns turning the entry of the executed query into the status.
LookupExecReturnsMarksAttempt(i, rows) ==
    /\ pc[i] = "lk_exec"
    /\ execs' = [execs EXCEPT ![i] = Append(@, Exec(generated_cypher[i], TRUE, rows, <<>>))]
    /\ calls' = [calls EXCEPT ![i] = Append(@, "graph")]
    /\ intermediate_steps' =
           [intermediate_steps EXCEPT
              ![i] = [@ EXCEPT ![Len(@)] = Step("status", SuccessStatus(rows))]]
    /\ result' = [result EXCEPT ![i] = LookupResult(rows)]
    /\ pc' = [pc EXCEPT ![i] = "done"]
    /\ UNCHANGED <<entry, question, intent, retries, max_retries,
                   error_message, generated_cypher, source_code, exc, prompts>>
    /\ UNCHANGED <<completion, handlers>>
    /\ UNCHANGED <<db, concise_schema, summaries>>
    /\ responses' = [responses EXCEPT ![i] = Append(@, Resp("graph", TRUE, <<>>, rows))]
    /\ UNCHANGED <<builderVars, constructionVars, clock, start_time>>
    /\ StopTimer(i)

\* The lookup loop: graph.query returns rows; Success is logged and the rows returned.
LookupExecReturns(i, rows) ==
    /\ pc[i] = "lk_exec"
    /\ execs' = [execs EXCEPT ![i] = Append(@, Exec(generated_cypher[i], TRUE, rows, <<>>))]
    /\ calls' = [calls EXCEPT ![i] = Append(@, "graph")]
    /\ intermediate_steps' =
           [intermediate_steps EXCEPT ![i] = Append(@, Step("status", SuccessStatus(rows)))]
    /\ result' = [result EXCEPT ![i] = LookupResult(rows)]
    /\ pc' = [pc EXCEPT ![i] = "done"]
    /\ UNCHANGED <<entry, question, intent, retries, max_retries,
                   error_message, generated_cypher, source_code, exc, prompts>>
    /\ UNCHANGED <<completion, handlers>>
    /\ UNCHANGED <<db, concise_schema, summaries>>
    /\ responses' = [responses EXCEPT ![i] = Append(@, Resp("graph", TRUE, <<>>, rows))]
    /\ UNCHANGED <<builderVars, constructionVars, clock, start_time>>
    /\ StopTimer(i)

\* LookupExecRaises appending a Failed record with the error message to the log.
LookupExecRaisesLogged(i, e) ==
    /\ pc[i] = "lk_exec"
    /\ execs' = [execs EXCEPT ![i] = Append(@, Exec(generated_cypher[i], FALSE, <<>>, e))]
    /\ calls' = [calls EXCEPT ![i] = Append(@, "graph")]
    /\ retries' = [retries EXCEPT ![i] = @ + 1]
    /\ error_message' = [error_message EXCEPT ![i] = CaughtMessage(@, e)]
    /\ intermediate_steps' =
           [intermediate_steps EXCEPT ![i] = Append(@, Step("status", <<"Failed">> \o e))]
    /\ IF LoopContinues(retries[i] + 1, max_retries[i])
       THEN /\ pc' = [pc EXCEPT ![i] = "lk_gen"]
            /\ UNCHANGED result
       ELSE /\ pc' = [pc EXCEPT ![i] = "done"]
            /\ result' = [result EXCEPT
                            ![i] = TextResult(FailureText(CaughtMessage(error_message[i], e)))]
    /\ UNCHANGED <<entry, question, intent, max_retries,
                   generated_cypher, source_code, exc, prompts>>
    /\ UNCHANGED <<completion, handlers>>
    /\ UNCHANGED <<db, concise_schema, summaries>>
    /\ responses' = [responses EXCEPT ![i] = Append(@, Resp("graph", FALSE, e, <<>>))]
    /\ UNCHANGED <<builderVars, constructionVars, clock, start_time>>
    /\ StopTimer(i)

\* The lookup loop: graph.query raises e; the except branch counts the retry and
\* the loop condition decides between another generation and the failure text.
LookupExecRaises(i, e) ==
    /\ pc[i] = "lk_exec"
    /\ execs' = [execs EXCEPT ![i] = Append(@, Exec(generated_cypher[i], FALSE, <<>>, e))]
    /\ calls' = [calls EXCEPT ![i] = Append(@, "graph")]
    /\ retries' = [retries EXCEPT ![i] = @ + 1]
    /\ error_message' = [error_message EXCEPT ![i] = CaughtMessage(@, e)]
    /\ IF LoopContinues(retries[i] + 1, max_retries[i])
       THEN /\ pc' = [pc EXCEPT ![i] = "lk_gen"]
            /\ UNCHANGED result
       ELSE /\ pc' = [pc EXCEPT ![i] = "done"]
            /\ result' = [result EXCEPT
                            ![i] = TextResult(FailureText(CaughtMessage(error_message[i], e)))]
    /\ UNCHANGED <<entry, question, intent, intermediate_steps, max_retries,
                   generated_cypher, source_code, exc, prompts>>
    /\ UNCHANGED <<completion, handlers>>
    /\ UNCHANGED <<db, concise_schema, summaries>>
    /\ responses' = [responses EXCEPT ![i] = Append(@, Resp("graph", FALSE, e, <<>>))]
    /\ UNCHANGED <<builderVars, constructionVars, clock, start_time>>
    /\ StopTimer(i)

\* _handle_method_explanation: cypher_chain.invoke returns out (no examples);
\* the stripped fetch query is logged.
ExplGenReturns(i, out) ==
    /\ pc[i] = "ex_gen"
    /\ LET q == strip(out)
       IN  /\ generated_cypher' = [generated_cypher EXCEPT ![i] = q]
           /\ intermediate_steps' =
                  [intermediate_steps EXCEPT ![i] = Append(@, Step("fetch_code_cypher", q))]
    /\ prompts' = [prompts EXCEPT ![i] = Append(@, Prompt(concise_schema, <<>>, question[i], <<>>))]
    /\ calls' = [calls EXCEPT ![i] = Append(@, "cypher")]
    /\ pc' = [pc EXCEPT ![i] = "ex_exec"]
    /\ UNCHANGED <<entry, question, intent, retries, max_retries,
                   error_message, source_code, result, exc, execs>>
    /\ UNCHANGED <<completion, handlers>>
    /\ UNCHANGED <<db, concise_schema, summaries>>
    /\ responses' = [responses EXCEPT ![i] = Append(@, Resp("cypher", TRUE, out, <<>>))]
    /\ UNCHANGED <<builderVars, constructionVars, clock, start_time>>
    /\ StopTimer(i)

\* _handle_method_explanation: cypher_chain.invoke raises e, before the try block.
ExplGenRaises(i, e) ==
    /\ pc[i] = "ex_gen"
    /\ prompts' = [prompts EXCEPT ![i] = Append(@, Prompt(concise_schema, <<>>, question[i], <<>>))]
    /\ calls' = [calls EXCEPT ![i] = Append(@, "cypher")]
    /\ pc' = [pc EXCEPT ![i] = "raised"]
    /\ exc' = [exc EXCEPT ![i] = e]
    /\ UNCHANGED <<entry, question, intent, intermediate_steps, retries,
                   max_retries, error_message, generated_cypher, source_code,
                   result, execs>>
    /\ UNCHANGED <<completion, handlers>>
    /\ UNCHANGED <<db, concise_schema, summaries>>
    /\ responses' = [responses EXCEPT ![i] = Append(@, Resp("cypher", FALSE, e, <<>>))]
    /\ UNCHANGED <<builderVars, constructionVars, clock, start_time>>
    /\ StopTimer(i)

\* _handle_method_explanation: graph.query returns code_data.
ExplExecReturns(i, code_data) ==
    /\ pc[i] = "ex_exec"
    /\ execs' = [execs EXCEPT ![i] = Append(@, Exec(generated_cypher[i], TRUE, code_data, <<>>))]
    /\ calls' = [calls EXCEPT ![i] = Append(@, "graph")]
    /\ IF MissingSource(code_data)
       THEN /\ result' = [result EXCEPT ![i] = TextResult(NoSourceText)]
            /\ pc' = [pc EXCEPT ![i] = "done"]
            /\ UNCHANGED <<source_code, intermediate_steps>>
       ELSE /\ source_code' = [source_code EXCEPT ![i] = code_data[1].source_code]
            /\ intermediate_steps' =
                   [intermediate_steps EXCEPT ![i] = Append(@, Step("status", StatusRetrieved))]
            /\ pc' = [pc EXCEPT ![i] = "ex_explain"]
            /\ UNCHANGED result
    /\ UNCHANGED <<entry, question, intent, retries, max_retries,
                   error_message, generated_cypher, exc, prompts>>
    /\ UNCHANGED <<completion, handlers>>
    /\ UNCHANGED <<db, concise_schema, summaries>>
    /\ responses' = [responses EXCEPT ![i] = Append(@, Resp("graph", TRUE, <<>>, code_data))]
    /\ UNCHANGED <<builderVars, constructionVars, clock, start_time>>
    /\ StopTimer(i)

\* ExplExecRaises going back to generate the fetch query again.
ExplExecRaisesRetry(i, e) ==
    /\ pc[i] = "ex_exec"
    /\ execs' = [execs EXCEPT ![i] = Append(@, Exec(generated_cypher[i], FALSE, <<>>, e))]
    /\ calls' = [calls EXCEPT ![i] = Append(@, "graph")]
    /\ pc' = [pc EXCEPT ![i] = "ex_gen"]
    /\ UNCHANGED <<entry, question, intent, intermediate_steps, retries,
                   max_retries, error_message, generated_cypher, source_code,
                   result, exc, prompts>>
    /\ UNCHANGED <<completion, handlers>>
    /\ UNCHANGED <<db, concise_schema, summaries>>
    /\ responses' = [responses EXCEPT ![i] = Append(@, Resp("graph", FALSE, e, <<>>))]
    /\ UNCHANGED <<builderVars, constructionVars, clock, start_time>>
    /\ StopTimer(i)

\* _handle_method_explanation: graph.query raises e, caught by the except branch.
ExplExecRaises(i, e) ==
    /\ pc[i] = "ex_exec"
    /\ execs' = [execs EXCEPT ![i] = Append(@, Exec(generated_cypher[i], FALSE, <<>>, e))]
    /\ calls' = [calls EXCEPT ![i] = Append(@, "graph")]
    /\ result' = [result EXCEPT ![i] = TextResult(ErrorOccurredText(e))]
    /\ pc' = [pc EXCEPT ![i] = "done"]
    /\ UNCHANGED <<entry, question, intent, intermediate_steps, retries,
                   max_retries, error_message, generated_cypher, source_code,
                   exc, prompts>>
    /\ UNCHANGED <<completion, handlers>>
    /\ UNCHANGED <<db, concise_schema, summaries>>
    /\ responses' = [responses EXCEPT ![i] = Append(@, Resp("graph", FALSE, e, <<>>))]
    /\ UNCHANGED <<builderVars, constructionVars, clock, start_time>>
    /\ StopTimer(i)

\* _handle_method_explanation: explanation_chain.invoke returns the explanation.
ExplainReturns(i, out) ==
    /\ pc[i] = "ex_explain"
    /\ calls' = [calls EXCEPT ![i] = Append(@, "explanation")]
    /\ result' = [result EXCEPT ![i] = TextResult(out)]
    /\ pc' = [pc EXCEPT ![i] = "done"]
    /\ UNCHANGED <<entry, question, intent, intermediate_steps, retries,
                   max_retries, error_message, generated_cypher, source_code,
                   exc, prompts, execs>>
    /\ UNCHANGED <<completion, handlers>>
    /\ UNCHANGED <<db, concise_schema, summaries>>
    /\ responses' = [responses EXCEPT ![i] = Append(@, Resp("explanation", TRUE, out, <<>>))]
    /\ UNCHANGED <<builderVars, constructionVars, clock, start_time>>
    /\ StopTimer(i)

\* ExplainRaises with the explanation call made after the try block.
ExplainRaisesPropagates(i, e) ==
    /\ pc[i] = "ex_explain"
    /\ calls' = [calls EXCEPT ![i] = Append(@, "explanation")]
    /\ exc' = [exc EXCEPT ![i] = e]
    /\ pc' = [pc EXCEPT ![i] = "raised"]
    /\ UNCHANGED <<entry, question, intent, intermediate_steps, retries,
                   max_retries, error_message, generated_cypher, source_code,
                   result, prompts, execs>>
    /\ UNCHANGED <<completion, handlers>>
    /\ UNCHANGED <<db, concise_schema, summaries>>
    /\ responses' = [responses EXCEPT ![i] = Append(@, Resp("explanation", FALSE, e, <<>>))]
    /\ UNCHANGED <<builderVars, constructionVars, clock, start_time>>
    /\ StopTimer(i)

\* _handle_method_explanation: explanation_chain.invoke raises e, caught by the
\* except branch.
ExplainRaises(i, e) ==
    /\ pc[i] = "ex_explain"
    /\ calls' = [calls EXCEPT ![i] = Append(@, "explanation")]
    /\ result' = [result EXCEPT ![i] = TextResult(ErrorOccurredText(e))]
    /\ pc' = [pc EXCEPT ![i] = "done"]
    /\ UNCHANGED <<entry, question, intent, intermediate_steps, retries,
                   max_retries, error_message, generated_cypher, source_code,
                   exc, prompts, execs>>
    /\ UNCHANGED <<completion, handlers>>
    /\ UNCHANGED <<db, concise_schema, summaries>>
    /\ responses' = [responses EXCEPT ![i] = Append(@, Resp("explanation", FALSE, e, <<>>))]
    /\ UNCHANGED <<builderVars, constructionVars, clock, start_time>>
    /\ StopTimer(i)

\* The caller drops the envelope (or the exception) of a finished invocation.
Discard(i) ==
    /\ pc[i] \in {"done", "raised"}
    /\ pc' = [pc EXCEPT ![i] = "idle"]
    /\ entry' = [entry EXCEPT ![i] = "none"]
    /\ question' = [question EXCEPT ![i] = <<>>]
    /\ intent' = [intent EXCEPT ![i] = <<>>]
    /\ intermediate_steps' = [intermediate_steps EXCEPT ![i] = <<>>]
    /\ retries' = [retries EXCEPT ![i] = 0]
    /\ max_retries' = [max_retries EXCEPT ![i] = 0]
    /\ error_message' = [error_message EXCEPT ![i] = <<>>]
    /\ generated_cypher' = [generated_cypher EXCEPT ![i] = <<>>]
    /\ source_code' = [source_code EXCEPT ![i] = <<>>]
    /\ result' = [result EXCEPT ![i] = NoResult]
    /\ exc' = [exc EXCEPT ![i] = <<>>]
    /\ calls' = [calls EXCEPT ![i] = <<>>]
    /\ prompts' = [prompts EXCEPT ![i] = <<>>]
    /\ execs' = [execs EXCEPT ![i] = <<>>]
    /\ completion' = [completion EXCEPT ![i] = <<>>]
    /\ handlers' = [handlers EXCEPT ![i] = <<>>]
    /\ UNCHANGED <<db, concise_schema, summaries>>
    /\ responses' = [responses EXCEPT ![i] = <<>>]
    /\ UNCHANGED <<builderVars, constructionVars, clock>>
    /\ start_time' = [start_time EXCEPT ![i] = <<>>]
    /\ duration_seconds' = [duration_seconds EXCEPT ![i] = <<>>]

\* The labels or relationship types of the store change (the builder, another client).
StoreChanges(d) ==
    /\ d # db
    /\ db' = d
    /\ UNCHANGED <<pc, entry, question, intent, intermediate_steps, retries,
                   max_retries, error_message, generated_cypher, source_code,
                   result, exc, calls, prompts, execs, completion, handlers,
                   responses, concise_schema, summaries>>
    /\ UNCHANGED <<builderVars, constructionVars, clock, start_time, duration_seconds>>

\* get_concise_schema is called on the handler: it queries the labels and the
\* relationship types and returns the summary; it assigns no field.
GetConciseSchema ==
    /\ Len(summaries) < MaxSchemaCalls
    /\ summaries' =
           Append(summaries,
                  Summary(db, get_concise_schema(LabelRows(db), RelationshipRows(db))))
    /\ UNCHANGED <<pc, entry, question, intent, intermediate_steps, retries,
                   max_retries, error_message, generated_cypher, source_code,
                   result, exc, calls, prompts, execs, completion, handlers,
                   responses, db, concise_schema>>
    /\ UNCHANGED <<builderVars, constructionVars, clock, start_time, duration_seconds>>

-----------------------------------------------------------------------------
(* The graph builder: operations *)

\* Another client created a node before the builder connects.
LegacyNodeCreated ==
    /\ driver = "unset"
    /\ nodes = <<>>
    /\ nodes' = <<LegacyNode>>
    /\ UNCHANGED <<driver, store_relationships, builder_pc, model_files,
                   pending_files, todo, repo_id, class_id, builder_exc, reads,
                   builder_calls, last_merge>>
    /\ UNCHANGED handlerVars

\* NeoGraphBuilder.__init__: the driver is created and verified, or either
\* call raises and the except branch sets driver to None.
BuilderInit(connected) ==
    /\ driver = "unset"
    /\ driver' = IF connected THEN "connected" ELSE "None"
    /\ builder_calls' =
           <<BuilderCall("__init__", <<>>, FALSE, nodes, store_relationships)>>
    /\ UNCHANGED <<nodes, store_relationships, builder_pc, model_files,
                   pending_files, todo, repo_id, class_id, builder_exc, reads,
                   last_merge>>
    /\ UNCHANGED handlerVars

\* A method of the builder may be called.
BuilderIdle ==
    /\ driver # "unset"
    /\ builder_pc = "idle"
    /\ Len(builder_calls) <= MaxBuilderCalls

\* close
Close ==
    /\ BuilderIdle
    /\ driver' = IF driver = "None" THEN "None" ELSE "closed"
    /\ builder_calls' =
           Append(builder_calls,
                  BuilderCall("close", <<>>, FALSE, nodes, store_relationships))
    /\ UNCHANGED <<nodes, store_relationships, builder_pc, model_files,
                   pending_files, todo, repo_id, class_id, builder_exc, reads,
                   last_merge>>
    /\ UNCHANGED handlerVars

\* clear_graph without the check of the driver.
ClearGraphUnguarded ==
    /\ BuilderIdle
    /\ IF driver = "connected"
       THEN /\ nodes' = <<>>
            /\ store_relationships' = <<>>
            /\ UNCHANGED builder_exc
            /\ builder_calls' =
                   Append(builder_calls,
                          BuilderCall("clear_graph", <<>>, FALSE, <<>>, <<>>))
       ELSE /\ builder_exc' = IF driver = "None"
                              THEN <<"'NoneType' object has no attribute 'session'">>
                              ELSE <<"Driver closed">>
            /\ UNCHANGED <<nodes, store_relationships>>
            /\ builder_calls' =
                   Append(builder_calls,
                          BuilderCall("clear_graph", <<>>, TRUE, nodes, store_relationships))
    /\ UNCHANGED <<driver, builder_pc, model_files, pending_files, todo,
                   repo_id, class_id, reads, last_merge>>
    /\ UNCHANGED handlerVars

\* clear_graph: nothing without a driver; otherwise every node and
\* relationship is deleted (a closed driver raises).
ClearGraph ==
    /\ BuilderIdle
    /\ IF driver = "None"
       THEN /\ UNCHANGED <<nodes, store_relationships, builder_exc>>
            /\ builder_calls' =
                   Append(builder_calls,
                          BuilderCall("clear_graph", <<>>, FALSE, nodes, store_relationships))
       ELSE IF driver = "connected"
       THEN /\ nodes' = <<>>
            /\ store_relationships' = <<>>
            /\ UNCHANGED builder_exc
            /\ builder_calls' =
                   Append(builder_calls,
                          BuilderCall("clear_graph", <<>>, FALSE, <<>>, <<>>))
       ELSE /\ builder_exc' = <<"Driver closed">>
            /\ UNCHANGED <<nodes, store_relationships>>
            /\ builder_calls' =
                   Append(builder_calls,
                          BuilderCall("clear_graph", <<>>, TRUE, nodes, store_relationships))
    /\ UNCHANGED <<driver, builder_pc, model_files, pending_files, todo,
                   repo_id, class_id, reads, last_merge>>
    /\ UNCHANGED handlerVars

\* create_relationship called on the builder with two ids.
CreateRelationship(from_id, to_id, relationship) ==
    /\ BuilderIdle
    /\ IF driver = "None"
       THEN /\ UNCHANGED <<store_relationships, builder_exc>>
            /\ builder_calls' =
                   Append(builder_calls,
                          BuilderCall("create_relationship", <<>>, FALSE,
                                      nodes, store_relationships))
       ELSE IF driver = "connected"
       THEN /\ store_relationships' =
                   create_relationship(store_relationships, nodes, from_id, to_id, relationship)
            /\ UNCHANGED builder_exc
            /\ builder_calls' =
                   Append(builder_calls,
                          BuilderCall("create_relationship", <<>>, FALSE,
                                      nodes, store_relationships'))
       ELSE /\ builder_exc' = <<"Driver closed">>
            /\ UNCHANGED store_relationships
            /\ builder_calls' =
                   Append(builder_calls,
                          BuilderCall("create_relationship", <<>>, TRUE,
                                      nodes, store_relationships))
    /\ UNCHANGED <<driver, nodes, builder_pc, model_files, pending_files,
                   todo, repo_id, class_id, reads, last_merge>>
    /\ UNCHANGED handlerVars

\* run_build_process is entered: it returns at once without a driver and
\* opens a session otherwise (a closed driver raises).
RunBuildProcess(files) ==
    /\ BuilderIdle
    /\ IF driver = "None"
       THEN /\ UNCHANGED <<builder_pc, model_files, pending_files, builder_exc>>
            /\ builder_calls' =
                   Append(builder_calls,
                          BuilderCall("run_build_process", files, FALSE,
                                      nodes, store_relationships))
       ELSE IF driver = "connected"
       THEN /\ builder_pc' = "building"
            /\ model_files' = files
            /\ pending_files' = files
            /\ UNCHANGED <<builder_exc, builder_calls>>
       ELSE /\ builder_exc' = <<"Driver closed">>
            /\ UNCHANGED <<builder_pc, model_files, pending_files>>
            /\ builder_calls' =
                   Append(builder_calls,
                          BuilderCall("run_build_process", files, TRUE,
                                      nodes, store_relationships))
    /\ UNCHANGED <<driver, nodes, store_relationships, todo, repo_id, class_id,
                   reads, last_merge>>
    /\ UNCHANGED handlerVars

\* run_build_process: the next model file is opened and loaded.
OpenFile ==
    /\ builder_pc = "building"
    /\ todo = <<>>
    /\ pending_files # <<>>
    /\ reads' = Append(reads, Head(pending_files).Name)
    /\ todo' = FileItems(Head(pending_files))
    /\ pending_files' = Tail(pending_files)
    /\ UNCHANGED <<driver, nodes, store_relationships, builder_pc, model_files,
                   repo_id, class_id, builder_exc, builder_calls, last_merge>>
    /\ UNCHANGED handlerVars

\* run_build_process: one pass of a loop body: the node is created or
\* updated and the relationship from its parent is made.
BuildItem ==
    /\ builder_pc = "building"
    /\ todo # <<>>
    /\ LET item == Head(todo)
           merged == create_or_update_node(nodes, item.node)
           from_id == IF item.parent = "repo" THEN repo_id ELSE class_id
       IN  /\ nodes' = merged.nodes
           /\ store_relationships' =
                  IF item.parent = "none" THEN store_relationships
                  ELSE create_relationship(store_relationships, merged.nodes, from_id,
                                           merged.node_id, item.rel)
           /\ repo_id' = IF item.keep = "repo" THEN merged.node_id ELSE repo_id
           /\ class_id' = IF item.keep = "class" THEN merged.node_id ELSE class_id
           /\ last_merge' =
                  [made |-> TRUE, node_obj |-> item.node, before |-> nodes,
                   after |-> merged.nodes, node_id |-> merged.node_id]
    /\ todo' = Tail(todo)
    /\ UNCHANGED <<driver, builder_pc, model_files, pending_files,
                   builder_exc, reads, builder_calls>>
    /\ UNCHANGED handlerVars

\* run_build_process: the store raises e on the query of the next pass and
\* the exception leaves run_build_process.
BuildItemRaises(e) ==
    /\ builder_pc = "building"
    /\ todo # <<>>
    /\ builder_pc' = "idle"
    /\ builder_exc' = e
    /\ todo' = <<>>
    /\ pending_files' = <<>>
    /\ builder_calls' =
           Append(builder_calls,
                  BuilderCall("run_build_process", model_files, TRUE,
                              nodes, store_relationships))
    /\ UNCHANGED <<driver, nodes, store_relationships, model_files, repo_id,
                   class_id, reads, last_merge>>
    /\ UNCHANGED handlerVars

\* run_build_process: every file is processed and the method returns.
BuildReturns ==
    /\ builder_pc = "building"
    /\ todo = <<>>
    /\ pending_files = <<>>
    /\ builder_pc' = "idle"
    /\ builder_calls' =
           Append(builder_calls,
                  BuilderCall("run_build_process", model_files, FALSE,
                              nodes, store_relationships))
    /\ UNCHANGED <<driver, nodes, store_relationships, model_files, pending_files,
                   todo, repo_id, class_id, builder_exc, reads, last_merge>>
    /\ UNCHANGED handlerVars

NextBuilder ==
    \/ LegacyNodeCreated
    \/ \E connected \in BOOLEAN : BuilderInit(connected)
    \/ Close
    \/ ClearGraph
    \/ \E from_id \in 1..2, to_id \in 1..2 :
           CreateRelationship(from_id, to_id, "DEPENDS_ON")
    \/ \E files \in ModelFileLists : RunBuildProcess(files)
    \/ OpenFile
    \/ BuildItem
    \/ \E e \in StoreErrors : BuildItemRaises(e)
    \/ BuildReturns

SpecBuilder == Init /\ [][NextBuilder]_vars

\* The steps of invocation i when invocations do not overlap.
QueryStep(i) ==
        \/ \E q \in Questions : Alone(i) /\ RunQuery(i, q)
        \/ \E out \in RouterOutputs : RouterReturns(i, out)
        \/ \E e \in ModelErrors : RouterRaises(i, e)
        \/ \E q \in Questions, m \in 0..MaxBudget : Alone(i) /\ CallLookup(i, q, m)
        \/ \E out \in CypherOutputs : LookupGenReturns(i, out)
        \/ \E e \in ModelErrors : LookupGenRaises(i, e)
        \/ \E rows \in GraphRows : LookupExecReturns(i, rows)
        \/ \E e \in GraphErrors : LookupExecRaises(i, e)
        \/ \E out \in CypherOutputs : ExplGenReturns(i, out)
        \/ \E e \in ModelErrors : ExplGenRaises(i, e)
        \/ \E code_data \in GraphRows : ExplExecReturns(i, code_data)
        \/ \E e \in GraphErrors : ExplExecRaises(i, e)
        \/ \E out \in ExplanationOutputs : ExplainReturns(i, out)
        \/ \E e \in ModelErrors : ExplainRaises(i, e)
        \/ Discard(i)

Next ==
    \/ \E i \in Inv : QueryStep(i)
    \/ \E d \in StoreStates : StoreChanges(d)
    \/ \E t \in ClockValues : ClockChanges(t)

Spec == Init /\ [][Next]_vars

\* A pending call of invocation i to a chain or to the store returns or raises.
Answers(i) ==
        \/ \E out \in RouterOutputs : RouterReturns(i, out)
        \/ \E e \in ModelErrors : RouterRaises(i, e)
        \/ \E out \in CypherOutputs : LookupGenReturns(i, out)
        \/ \E e \in ModelErrors : LookupGenRaises(i, e)
        \/ \E rows \in GraphRows : LookupExecReturns(i, rows)
        \/ \E e \in GraphErrors : LookupExecRaises(i, e)
        \/ \E out \in CypherOutputs : ExplGenReturns(i, out)
        \/ \E e \in ModelErrors : ExplGenRaises(i, e)
        \/ \E code_data \in GraphRows : ExplExecReturns(i, code_data)
        \/ \E e \in GraphErrors : ExplExecRaises(i, e)
        \/ \E out \in ExplanationOutputs : ExplainReturns(i, out)
        \/ \E e \in ModelErrors : ExplainRaises(i, e)

\* Every call to a collaborator is answered: it returns or it raises.
SpecFair == Init /\ [][Next]_vars /\ \A i \in Inv : WF_vars(Answers(i))

\* The collaborator behaviours followed when two invocations are kept side by side.
SmallRouterOutputs ==
    { <<" ","C","y","p","h","e","r","_","L","O","O","K","U","P","\n">>,
      METHOD_EXPLANATION,
      CYPHER_LOOKUP \o <<".">> }

SmallCypherOutputs ==
    { <<"MATCH (m:Method) RETURN m.name">>,
      <<" ", "MATCH (m:Method) RETURN m.mthod", "\n">> }

SmallGraphRows ==
    { <<>>, << [source_code |-> <<"def calculatePremium(): ...">>] >> }

\* The steps of invocation i once it is entered, over the small behaviours.
SmallStep(i) ==
        \/ \E out \in SmallRouterOutputs : RouterReturns(i, out)
        \/ \E e \in ModelErrors : RouterRaises(i, e)
        \/ \E out \in SmallCypherOutputs : LookupGenReturns(i, out)
        \/ \E e \in ModelErrors : LookupGenRaises(i, e)
        \/ \E rows \in SmallGraphRows : LookupExecReturns(i, rows)
        \/ \E e \in GraphErrors : LookupExecRaises(i, e)
        \/ \E out \in SmallCypherOutputs : ExplGenReturns(i, out)
        \/ \E e \in ModelErrors : ExplGenRaises(i, e)
        \/ \E code_data \in SmallGraphRows : ExplExecReturns(i, code_data)
        \/ \E e \in GraphErrors : ExplExecRaises(i, e)
        \/ \E out \in ExplanationOutputs : ExplainReturns(i, out)
        \/ \E e \in ModelErrors : ExplainRaises(i, e)
        \/ Discard(i)

\* Concurrent callers: run_query is entered whatever the other invocation does.
NextConcurrent ==
    \E i \in Inv :
        \/ \E q \in Questions : RunQuery(i, q)
        \/ SmallStep(i)

SpecConcurrent == Init /\ [][NextConcurrent]_vars

\* No other invocation is in progress; one may have returned and not been dropped.
NoneRunning(i) == \A j \in Inv \ {i} : pc[j] \in {"idle", "done", "raised"}

\* Successive callers: run_query is entered after the other invocation ended.
NextSuccessive ==
    \E i \in Inv :
        \/ \E q \in Questions : NoneRunning(i) /\ RunQuery(i, q)
        \/ SmallStep(i)

SpecSuccessive == Init /\ [][NextSuccessive]_vars

\* The construction of the handler, followed by queries when it succeeded.
NextConstruct ==
    \/ ConstructReturns
    \/ \E e \in InitErrors : ConstructRaises(e)
    \/ \E i \in Inv :
           \/ \E q \in Questions : NoneRunning(i) /\ RunQuery(i, q)
           \/ SmallStep(i)

SpecConstruct == InitConstruct /\ [][NextConstruct]_vars

\* The store changing and get_concise_schema being called on the handler.
NextSchema ==
    \/ \E d \in StoreStates : StoreChanges(d)
    \/ GetConciseSchema

SpecSchema == Init /\ [][NextSchema]_vars

-----------------------------------------------------------------------------
TypeOK ==
    \A i \in Inv :
        /\ pc[i] \in {"idle", "router", "lk_gen", "lk_exec", "ex_gen",
                      "ex_exec", "ex_explain", "done", "raised"}
        /\ entry[i] \in {"none", "run_query", "lookup"}
        /\ retries[i] \in 0..(MaxBudget + 2)
        /\ result[i].kind \in {"none", "rows", "text"}

-----------------------------------------------------------------------------
(* Vocabulary of the properties *)

\* The handler that invocation i ran.
LookupRun(i) == handlers[i] = <<"lookup">>

ExplanationRun(i) == handlers[i] = <<"explanation">>

\* run_query got the router's completion and recorded the intent.
RouterReturned(i) == entry[i] = "run_query" /\ intermediate_steps[i] # <<>>

\* Router completions that are a label once trimmed and case-folded.
LookupCompletions ==
    { <<"c","y","p","h","e","r","_","l","o","o","k","u","p">>,
      <<" ","C","y","p","h","e","r","_","L","O","O","K","U","P","\n">> }

ExplanationCompletions ==
    { <<"m","e","t","h","o","d","_","e","x","p","l","a","n","a","t","i","o","n">>,
      <<"\t","M","E","T","H","O","D","_","E","x","p","l","a","n","a","t","i","o","n"," ">> }

\* The log without its recognized-intent entry.
WithoutIntent(i) ==
    SelectSeq(intermediate_steps[i], LAMBDA st : st.key # "recognized_intent")

AttemptRecords(i) ==
    SelectSeq(intermediate_steps[i],
              LAMBDA st : st.key = "cypher_query_generation_attempt")

StatusRecords(i, v) ==
    SelectSeq(intermediate_steps[i], LAMBDA st : st.key = "status" /\ st.value = v)

\* Every execution of the run failed.
AllFailed(i) ==
    execs[i] # <<>> /\ \A k \in 1..Len(execs[i]) : ~execs[i][k].ok

\* A lookup run that returned after every execution failed.
Exhausted(i) == LookupRun(i) /\ pc[i] = "done" /\ AllFailed(i)

-----------------------------------------------------------------------------
(* Properties *)

\* C1: run_query never raises: whatever a collaborator does, no exception
\* leaves run_query.
C1_RunQueryNeverRaises ==
    \A i \in Inv : entry[i] = "run_query" => pc[i] # "raised"

C3_AtMostMaxRetriesCalls ==
    \A i \in Inv : LookupRun(i) => Len(prompts[i]) <= max_retries[i]

\* C3 (amended): a lookup run makes at most max_retries + 1 generation calls;
\* max_retries counts the retries after the first attempt.
C3_AtMostMaxRetriesPlusOneCalls ==
    \A i \in Inv : LookupRun(i) => Len(prompts[i]) <= max_retries[i] + 1

\* A run with a budget of at least one retry used all its generation calls.
C3_Witness ==
    \E i \in Inv :
        /\ LookupRun(i)
        /\ max_retries[i] >= 1
        /\ pc[i] = "done"
        /\ Len(prompts[i]) = max_retries[i] + 1

C5_ZeroRowsIsSuccess ==
    \A i \in Inv : LookupRun(i) =>
        \A k \in 1..Len(execs[i]) :
            (execs[i][k].ok /\ execs[i][k].rows = <<>>) =>
                /\ k = Len(execs[i])
                /\ pc[i] = "done"
                /\ result[i].kind = "rows"
                /\ result[i].rows = <<>>
                /\ intermediate_steps[i][Len(intermediate_steps[i])] =
                       [key |-> "status", value |-> <<"Success">>]
                /\ StatusRecords(i, <<"Failed">>) = <<>>
                /\ retries[i] = k - 1
                /\ Len(prompts[i]) = k

\* A lookup run returned after an execution that yielded zero rows.
C5_Witness ==
    \E i \in Inv :
        /\ LookupRun(i)
        /\ pc[i] = "done"
        /\ execs[i] # <<>>
        /\ execs[i][Len(execs[i])].ok
        /\ execs[i][Len(execs[i])].rows = <<>>

\* C6: the first execution that succeeds is the last call of its run; the run
\* has returned exactly the rows of that execution and made no generation or
\* execution call after it.
C6_FirstSuccessEndsLoop ==
    \A i \in Inv : LookupRun(i) =>
        \A k \in 1..Len(execs[i]) :
            execs[i][k].ok =>
                /\ k = Len(execs[i])
                /\ pc[i] = "done"
                /\ result[i].kind = "rows"
                /\ result[i].rows = execs[i][k].rows
                /\ Len(prompts[i]) = k
                /\ calls[i][Len(calls[i])] = "graph"

\* A lookup run returned two rows from its second execution.
C6_Witness ==
    \E i \in Inv :
        /\ LookupRun(i)
        /\ pc[i] = "done"
        /\ Len(execs[i]) = 2
        /\ execs[i][2].ok
        /\ Len(execs[i][2].rows) = 2

\* C7: the failure text of an exhausted run ends with the error message of
\* the last failed execution.
C7_FailureTextCarriesLastError ==
    \A i \in Inv : Exhausted(i) =>
        /\ result[i].kind = "text"
        /\ result[i].text =
               <<"Failed to execute a valid query. Last error: ">>
                   \o execs[i][Len(execs[i])].error

\* An exhausted run whose last error differs from its first.
C7_Witness ==
    \E i \in Inv :
        /\ Exhausted(i)
        /\ Len(execs[i]) >= 2
        /\ execs[i][Len(execs[i])].error # execs[i][1].error

\* C8: when the router's completion is neither label after trimming and
\* lowercasing, run_query has returned the apology and made no call besides
\* the router call: no handler, no generation, no execution, no explanation.
C8_UnknownShortCircuits ==
    \A i \in Inv :
        (RouterReturned(i)
           /\ completion[i] \notin LookupCompletions \cup ExplanationCompletions) =>
            /\ pc[i] = "done"
            /\ result[i].kind = "text"
            /\ result[i].text =
                   <<"I'm sorry, I can only answer questions to find code entities or to explain specific methods.">>
            /\ handlers[i] = <<>>
            /\ calls[i] = <<"router">>
            /\ prompts[i] = <<>>
            /\ execs[i] = <<>>

\* run_query returned for a completion that holds a label with more around it.
C8_Witness ==
    \E i \in Inv :
        /\ RouterReturned(i)
        /\ pc[i] = "done"
        /\ completion[i] =
               <<"c","y","p","h","e","r","_","l","o","o","k","u","p",".">>

\* C9: the lookup handler runs exactly for the completions that are
\* cypher_lookup once trimmed and case-folded, the explanation handler exactly
\* for those that are method_explanation, no handler for any other text, and
\* never more than one handler in an invocation.
C9_RoutesByNormalizedLabel ==
    \A i \in Inv :
        /\ Len(handlers[i]) <= 1
        /\ RouterReturned(i) =>
            /\ LookupRun(i) <=> completion[i] \in LookupCompletions
            /\ ExplanationRun(i) <=> completion[i] \in ExplanationCompletions
            /\ handlers[i] = <<>> <=>
                   completion[i] \notin LookupCompletions \cup ExplanationCompletions

\* A padded, mixed-case completion was routed and its handler made a call.
C9_Witness ==
    \E i \in Inv :
        /\ RouterReturned(i)
        /\ completion[i] \notin {CYPHER_LOOKUP, METHOD_EXPLANATION}
        /\ handlers[i] # <<>>
        /\ prompts[i] # <<>>

\* C10: when the fetch query of the explanation path returns no row, the
\* result is the fixed not-found text (not the text saying that the method
\* was found without source) and explanation_chain is never invoked.
C10_EmptyFetchNotFound ==
    \A i \in Inv :
        (ExplanationRun(i) /\ execs[i] # <<>>
           /\ execs[i][1].ok /\ execs[i][1].rows = <<>>) =>
            /\ pc[i] = "done"
            /\ result[i].kind = "text"
            /\ result[i].text # NoSourceText
            /\ \A k \in 1..Len(calls[i]) : calls[i][k] # "explanation"

\* C11: when the fetch returns at least one row whose first row has no
\* source_code field or an empty one, the result is the fixed text about the
\* source that could not be retrieved and explanation_chain is not invoked.
C11_NoSourceShortCircuits ==
    \A i \in Inv :
        (ExplanationRun(i) /\ execs[i] # <<>>
           /\ execs[i][1].ok /\ execs[i][1].rows # <<>>
           /\ ("source_code" \notin DOMAIN execs[i][1].rows[1]
                 \/ execs[i][1].rows[1].source_code = <<>>)) =>
            /\ pc[i] = "done"
            /\ result[i].kind = "text"
            /\ result[i].text =
                   <<"I found the method, but I couldn't retrieve its source code to explain.">>
            /\ \A k \in 1..Len(calls[i]) : calls[i][k] # "explanation"

\* The calls of invocation i after the router call.
HandlerCalls(i) == SelectSeq(calls[i], LAMBDA c : c # "router")

\* C12: an explanation run calls, in this order and each at most once, the
\* fetch-query generation, the graph execution and the explanation model; the
\* explanation model only after the fetch returned a first row with a
\* source_code field; a finished run made the one generation call.
C12_ExplanationCallBudget ==
    \A i \in Inv : ExplanationRun(i) =>
        /\ Len(HandlerCalls(i)) <= 3
        /\ \A k \in 1..Len(HandlerCalls(i)) :
               HandlerCalls(i)[k] = <<"cypher", "graph", "explanation">>[k]
        /\ Len(prompts[i]) <= 1
        /\ Len(execs[i]) <= 1
        /\ pc[i] \in {"done", "raised"} => Len(prompts[i]) = 1
        /\ Len(HandlerCalls(i)) = 3 =>
               /\ execs[i][1].ok
               /\ execs[i][1].rows # <<>>
               /\ "source_code" \in DOMAIN execs[i][1].rows[1]

\* An explanation run returned after its only fetch execution failed.
C12_Witness ==
    \E i \in Inv :
        /\ ExplanationRun(i)
        /\ pc[i] = "done"
        /\ HandlerCalls(i) = <<"cypher", "graph">>
        /\ ~execs[i][1].ok

\* C13: in a lookup run generation and execution calls alternate, starting
\* with a generation, and the generation call of attempt k+1 is made only
\* when the execution of attempt k has been made and has failed.
C13_AttemptsSequential ==
    \A i \in Inv : LookupRun(i) =>
        /\ \A k \in 1..Len(HandlerCalls(i)) :
               HandlerCalls(i)[k] = IF k % 2 = 1 THEN "cypher" ELSE "graph"
        /\ Len(execs[i]) <= Len(prompts[i])
        /\ Len(prompts[i]) <= Len(execs[i]) + 1
        /\ \A k \in 2..Len(prompts[i]) : ~execs[i][k - 1].ok

\* A lookup run made two generation calls and two executions.
C13_Witness ==
    \E i \in Inv :
        /\ LookupRun(i)
        /\ Len(prompts[i]) = 2
        /\ Len(execs[i]) = 2

RouterFailed(i) ==
    entry[i] = "run_query" /\ calls[i] # <<>> /\ intermediate_steps[i] = <<>>

\* C18: run_query calls the router exactly once; when that call fails, the
\* invocation makes no generation and no execution and returns a failure
\* text.
C18_ClassifierFailureIsText ==
    \A i \in Inv : entry[i] = "run_query" =>
        /\ Len(SelectSeq(calls[i], LAMBDA c : c = "router")) <= 1
        /\ pc[i] # "router" => Len(SelectSeq(calls[i], LAMBDA c : c = "router")) = 1
        /\ RouterFailed(i) =>
               /\ prompts[i] = <<>>
               /\ execs[i] = <<>>
               /\ pc[i] = "done"
               /\ result[i].kind = "text"

\* C14: the schema summary of the handler is the one computed at
\* construction: whatever became of the store since, no step of a query
\* computed another summary or changed the field, and every generation call
\* got that summary.
C14_SchemaFixedAtConstruction ==
    /\ Len(summaries) = 1
    /\ concise_schema = summaries[1].out
    /\ \A i \in Inv : \A k \in 1..Len(prompts[i]) :
           prompts[i][k].schema = summaries[1].out

\* A query made a generation call after the store had changed since construction.
C14_Witness ==
    \E i \in Inv :
        /\ pc[i] = "done"
        /\ prompts[i] # <<>>
        /\ db.labels # summaries[1].labels

\* The names a summary lists between positions lo and hi.
ListedNames(out, lo, hi) ==
    { out[n + 1] : n \in { m \in lo..(hi - 1) : out[m] = "- " } }

\* The position of the Relationships heading in a summary.
RelationshipsAt(out) == CHOOSE n \in 1..Len(out) : out[n] = "Relationships:"

Elements(seq) == { seq[k] : k \in 1..Len(seq) }

LoopState(i) ==
    <<pc[i], intermediate_steps[i], calls[i], prompts[i], execs[i],
      result[i], responses[i], generated_cypher[i], handlers[i]>>

\* q is raw without its leading and trailing whitespace.
IsTrimOf(q, raw) ==
    \E lo \in 1..(Len(raw) + 1) : \E hi \in 0..Len(raw) :
        /\ q = SubSeq(raw, lo, hi)
        /\ \A k \in 1..(lo - 1) : raw[k] \in {" ", "\t", "\n", "\r", "\f"}
        /\ \A k \in (hi + 1)..Len(raw) : raw[k] \in {" ", "\t", "\n", "\r", "\f"}
        /\ q # <<>> => /\ q[1] \notin {" ", "\t", "\n", "\r", "\f"}
                       /\ q[Len(q)] \notin {" ", "\t", "\n", "\r", "\f"}

\* Generate -> Execute: the generation call returned and its trimmed
\* completion is the query to execute.
GenerateToExecute(i) ==
    /\ pc[i] = "lk_gen" /\ pc'[i] = "lk_exec"
    /\ Len(prompts'[i]) = Len(prompts[i]) + 1
    /\ execs'[i] = execs[i]
    /\ responses'[i][Len(responses'[i])].ok
    /\ IsTrimOf(generated_cypher'[i], responses'[i][Len(responses'[i])].text)

\* The generation call raised: no query was generated and the run is left.
GenerateRaised(i) ==
    /\ pc[i] = "lk_gen" /\ pc'[i] = "raised"
    /\ ~responses'[i][Len(responses'[i])].ok
    /\ intermediate_steps'[i] = intermediate_steps[i]
    /\ execs'[i] = execs[i]

\* Execute -> Success, Generate or Exhausted: the query generated last is
\* executed, once, and the outcome and the budget decide where the loop goes.
ExecuteToNext(i) ==
    /\ pc[i] = "lk_exec"
    /\ Len(execs'[i]) = Len(execs[i]) + 1
    /\ prompts'[i] = prompts[i]
    /\ LET x == execs'[i][Len(execs'[i])]
       IN  /\ x.query = generated_cypher[i]
           /\ \/ x.ok /\ pc'[i] = "done" /\ result'[i].kind = "rows"
              \/ ~x.ok /\ Len(execs'[i]) <= max_retries[i] /\ pc'[i] = "lk_gen"
              \/ ~x.ok /\ Len(execs'[i]) > max_retries[i]
                   /\ pc'[i] = "done" /\ result'[i].kind = "text"

QueryEntries(i) ==
    SelectSeq(intermediate_steps[i],
              LAMBDA st : st.key \in {"cypher_query_generation_attempt",
                                      "fetch_code_cypher"})

\* The completions that cypher_chain returned to invocation i.
OwnCompletions(i) ==
    SelectSeq(responses[i], LAMBDA r : r.op = "cypher" /\ r.ok)

\* The result run_query returns for the responses invocation i received,
\* when nothing else runs on the handler.
ResultAlone(i) ==
    LET last == responses[i][Len(responses[i])]
    IN  IF completion[i] \in LookupCompletions
        THEN IF last.ok
             THEN [kind |-> "rows", rows |-> last.rows, text |-> <<>>]
             ELSE [kind |-> "text", rows |-> <<>>,
                   text |-> <<"Failed to execute a valid query. Last error: ">> \o last.text]
        ELSE IF completion[i] \in ExplanationCompletions
        THEN [kind |-> "text", rows |-> <<>>,
              text |-> IF ~last.ok
                       THEN <<"An error occurred. I may have generated a bad query to find the method. Error: ">>
                                \o last.text
                       ELSE IF last.op = "graph"
                       THEN <<"I found the method, but I couldn't retrieve its source code to explain.">>
                       ELSE last.text]
        ELSE [kind |-> "text", rows |-> <<>>,
              text |-> <<"I'm sorry, I can only answer questions to find code entities or to explain specific methods.">>]

\* C15: while invocations interleave, the log of each holds its own intent
\* and, in order, exactly the queries generated for it; its returned result
\* is the one its own responses give when it runs alone; and two invocations
\* that got the same question and responses are in the same state.
C15_InvocationsDoNotInterfere ==
    \A i \in Inv :
        /\ Len(QueryEntries(i)) = Len(OwnCompletions(i))
        /\ \A k \in 1..Len(QueryEntries(i)) :
               IsTrimOf(QueryEntries(i)[k].value, OwnCompletions(i)[k].text)
        /\ Len(intermediate_steps[i]) <= Len(responses[i]) + 1
        /\ pc[i] = "done" => result[i] = ResultAlone(i)
        /\ \A j \in Inv :
               (question[i] = question[j] /\ responses[i] = responses[j]) =>
                   /\ pc[i] = pc[j]
                   /\ intermediate_steps[i] = intermediate_steps[j]
                   /\ result[i] = result[j]

\* Two lookup runs are in progress together, each about to execute its own
\* query, one of them in its second attempt.
C15_Witness ==
    \E i \in Inv : \E j \in Inv :
        /\ pc[i] = "lk_exec"
        /\ pc[j] = "lk_exec"
        /\ Len(execs[i]) = 1
        /\ Len(execs[j]) = 0
        /\ generated_cypher[i] # generated_cypher[j]

\* C16: an invocation made after another one ended, with the same question
\* and the same responses of the collaborators, ended the same way with the
\* same intent, result and log, whatever ran before it.
C16_SuccessiveInvocationsIndependent ==
    \A i \in Inv : \A j \in Inv :
        (/\ pc[i] \in {"done", "raised"}
         /\ pc[j] \in {"done", "raised"}
         /\ question[i] = question[j]
         /\ responses[i] = responses[j]) =>
            /\ pc[i] = pc[j]
            /\ intent[i] = intent[j]
            /\ result[i] = result[j]
            /\ intermediate_steps[i] = intermediate_steps[j]

\* Two invocations ended after the same question and the same three
\* responses, a failed execution among them.
C16_Witness ==
    \E i \in Inv : \E j \in Inv :
        /\ i # j
        /\ pc[i] = "done"
        /\ pc[j] = "done"
        /\ question[i] = question[j]
        /\ responses[i] = responses[j]
        /\ Len(responses[i]) >= 3
        /\ ~responses[i][3].ok

\* A lookup run that returned the rows of a successful execution.
Success(i) ==
    /\ LookupRun(i)
    /\ pc[i] = "done"
    /\ result[i].kind = "rows"
    /\ execs[i] # <<>>
    /\ execs[i][Len(execs[i])].ok

\* C21: when every call to a model or to the store returns or fails, a lookup
\* run that was started eventually reaches Success or Exhausted, whatever the
\* budget and the outcomes of the executions.
C21_LookupReachesSuccessOrExhausted ==
    \A i \in Inv :
        (LookupRun(i) /\ pc[i] = "lk_gen") ~> (Success(i) \/ Exhausted(i))

\* The sequence a is the beginning of the sequence b.
IsPrefix(a, b) == Len(a) <= Len(b) /\ SubSeq(b, 1, Len(a)) = a

\* C22: every step of an invocation leaves the entries that its log already
\* has in place and unchanged, and at most adds entries after them; the log
\* goes away only with the envelope, when the caller drops it.
C22_LogAppendOnly ==
    [][\A i \in Inv :
           \/ IsPrefix(intermediate_steps[i], intermediate_steps'[i])
           \/ pc[i] \in {"done", "raised"} /\ pc'[i] = "idle"]_vars

\* A log grew to four entries: the intent, two queries and the status.
C22_Witness ==
    \E i \in Inv :
        /\ pc[i] = "done"
        /\ Len(intermediate_steps[i]) = 4
        /\ intermediate_steps[i][1].key = "recognized_intent"
        /\ intermediate_steps[i][4].key = "status"

\* C23: when a call that __init__ makes (the graph connection, a metadata
\* query of the schema summary, the model client, the chains) fails, __init__
\* has raised ConnectionError carrying the failure's message and no
\* invocation was ever made on a handler; an invocation is made only on a
\* handler whose five construction calls all returned.
C23_ConstructionAbortsOnFailure ==
    /\ (\E k \in 1..Len(init_calls) : ~init_calls[k].ok) =>
           /\ init_pc = "failed"
           /\ init_exc.type = "ConnectionError"
           /\ Len(init_exc.message) = 2
           /\ init_exc.message[1] = "Failed to initialize GraphQueryHandler: "
           /\ \A i \in Inv : pc[i] = "idle" /\ entry[i] = "none" /\ calls[i] = <<>>
    /\ (\E i \in Inv : entry[i] # "none") =>
           /\ init_pc = "ready"
           /\ Len(init_calls) = 5
           /\ \A k \in 1..5 : init_calls[k].ok
    /\ init_pc # "failed" => init_exc.type = "none"

\* The construction was aborted by the second metadata query of the schema
\* summary, after the connection and the first query had succeeded.
C23_Witness ==
    /\ init_pc = "failed"
    /\ Len(init_calls) = 3
    /\ init_calls[3] = [op |-> "db.relationshipTypes", ok |-> FALSE]
    /\ init_exc.type = "ConnectionError"

\* C24: the envelope run_query returns holds a result, the log and a
\* duration on every route; from the moment the router returned, the first
\* entry of the log is the recognized intent and it is the only such entry,
\* so it precedes every generation and execution step; no duration is
\* recorded before the result exists.
C24_EnvelopeComplete ==
    \A i \in Inv : entry[i] = "run_query" =>
        /\ pc[i] = "done" =>
               /\ result[i].kind \in {"rows", "text"}
               /\ Len(duration_seconds[i]) = 1
               /\ intermediate_steps[i] # <<>>
        /\ (pc[i] = "done" \/ Len(calls[i]) >= 2) =>
               /\ intermediate_steps[i][1] =
                      [key |-> "recognized_intent", value |-> intent[i]]
               /\ \A k \in 2..Len(intermediate_steps[i]) :
                      intermediate_steps[i][k].key # "recognized_intent"
        /\ pc[i] # "done" => duration_seconds[i] = <<>>

\* run_query returned the apology for an unrecognized intent, 0.62 s on the
\* clock after it was entered.
C24_Witness ==
    \E i \in Inv :
        /\ entry[i] = "run_query"
        /\ pc[i] = "done"
        /\ handlers[i] = <<>>
        /\ duration_seconds[i] = <<62>>

\* C25: no query handed to graph.query, on the lookup path or on the
\* explanation path, holds a code-fence marker.
C25_NoFenceExecuted ==
    \A i \in Inv : \A k \in 1..Len(execs[i]) :
        \A n \in 1..Len(execs[i][k].query) : execs[i][k].query[n] # Fence

\* C26: in an explanation run, when the execution of the fetch query or the
\* explanation call raised, the run has returned the 'An error occurred' text
\* with the message of that failure and the log gathered until then (after
\* the intent: the fetch query, and the retrieved status if the fetch had
\* succeeded); after a failed fetch there is no explanation call and no
\* second execution.
C26_ExplanationFailureCaptured ==
    \A i \in Inv : (ExplanationRun(i) /\ Len(responses[i]) >= 3) =>
        LET last == responses[i][Len(responses[i])]
        IN  (last.op \in {"graph", "explanation"} /\ ~last.ok) =>
                /\ pc[i] = "done"
                /\ result[i].kind = "text"
                /\ result[i].text =
                       <<"An error occurred. I may have generated a bad query to find the method. Error: ">>
                           \o last.text
                /\ Len(execs[i]) = 1
                /\ WithoutIntent(i) =
                       << [key |-> "fetch_code_cypher", value |-> execs[i][1].query] >>
                           \o (IF last.op = "explanation"
                               THEN << [key |-> "status",
                                        value |-> <<"Source code retrieved successfully.">>] >>
                               ELSE <<>>)
                /\ last.op = "graph" =>
                       /\ HandlerCalls(i) = <<"cypher", "graph">>
                       /\ ~execs[i][1].ok
                       /\ execs[i][1].error = last.text

\* An explanation run returned after the explanation call raised.
C26_Witness ==
    \E i \in Inv :
        /\ ExplanationRun(i)
        /\ pc[i] = "done"
        /\ HandlerCalls(i) = <<"cypher", "graph", "explanation">>
        /\ ~responses[i][Len(responses[i])].ok

\* The positions of the Success entries in the log of invocation i.
SuccessAt(i) ==
    { k \in 1..Len(intermediate_steps[i]) :
          intermediate_steps[i][k] = [key |-> "status", value |-> <<"Success">>] }

\* C27: the log of a lookup run has at most one Success entry, and only as
\* its last entry, in a run that has returned; a run that returned has it if
\* and only if its result is the rows of its last execution; with the
\* 'Failed to execute a valid query' text the log has none.
C27_SuccessOnlyLastWithRows ==
    \A i \in Inv : LookupRun(i) =>
        /\ Cardinality(SuccessAt(i)) <= 1
        /\ \A k \in SuccessAt(i) :
               k = Len(intermediate_steps[i]) /\ pc[i] = "done"
        /\ pc[i] = "done" =>
               /\ SuccessAt(i) # {} <=> result[i].kind = "rows"
               /\ result[i].kind = "rows" =>
                      /\ execs[i] # <<>>
                      /\ execs[i][Len(execs[i])].ok
                      /\ result[i].rows = execs[i][Len(execs[i])].rows
        /\ (result[i].kind = "text"
              /\ result[i].text[1] = "Failed to execute a valid query. Last error: ") =>
               SuccessAt(i) = {}

\* A lookup run with a budget of two retries returned one row from its third
\* execution.
C27_Witness ==
    \E i \in Inv :
        /\ LookupRun(i)
        /\ pc[i] = "done"
        /\ Len(execs[i]) = 3
        /\ result[i].kind = "rows"
        /\ Len(result[i].rows) = 1
        /\ SuccessAt(i) = {Len(intermediate_steps[i])}

\* Two nodes with the same label, name and type.
SameKey(a, b) ==
    /\ a.label = b.label
    /\ a.properties.name = b.properties.name
    /\ a.properties.type = b.properties.type

\* The nodes of ns that have the key of node_obj.
WithKeyOf(ns, node_obj) ==
    { k \in 1..Len(ns) :
          /\ ns[k].label = node_obj.type
          /\ ns[k].properties.name = node_obj.name
          /\ ns[k].properties.type = node_obj.type }

\* C28: the store never holds two nodes with the same label, name and type;
\* the last _create_or_update_node call, when a node with its key existed,
\* created none, returned the id of that node and left it with every
\* property of the call, all other nodes untouched; when none existed it
\* added exactly one node, with the label and properties of the call, and
\* returned its id.
C28_OneNodePerKey ==
    /\ \A a \in 1..Len(nodes) : \A b \in 1..Len(nodes) :
           SameKey(nodes[a], nodes[b]) => a = b
    /\ last_merge.made =>
           LET before == last_merge.before
               after == last_merge.after
               obj == last_merge.node_obj
               id == last_merge.node_id
               had == WithKeyOf(before, obj)
           IN  IF had # {}
               THEN /\ Len(after) = Len(before)
                    /\ had = {id}
                    /\ after[id].label = before[id].label
                    /\ \A p \in DOMAIN obj : after[id].properties[p] = obj[p]
                    /\ \A k \in 1..Len(before) : k # id => after[k] = before[k]
               ELSE /\ Len(after) = Len(before) + 1
                    /\ id = Len(after)
                    /\ after[id] = [label |-> obj.type, properties |-> obj]
                    /\ SubSeq(after, 1, Len(before)) = before

\* The class node another client had created was found by the builder's
\* call and got a new source, keeping its id and its foreign property.
C28_Witness ==
    /\ last_merge.made
    /\ last_merge.node_obj.type = "Class"
    /\ last_merge.node_id = 1
    /\ last_merge.before # <<>>
    /\ "owner" \in DOMAIN last_merge.after[1].properties
    /\ "source" \notin DOMAIN last_merge.before[1].properties
    /\ "source" \in DOMAIN last_merge.after[1].properties

\* C29: a run of run_build_process that follows a completed run on the same
\* model files leaves the nodes and relationships that run left; and the
\* store never holds two relationships of the same type between the same
\* ordered pair of nodes.
C29_BuildIdempotent ==
    /\ \A k \in 1..(Len(builder_calls) - 1) :
           LET once == builder_calls[k]
               twice == builder_calls[k + 1]
           IN  (/\ once.op = "run_build_process"
                /\ twice.op = "run_build_process"
                /\ ~once.raised
                /\ ~twice.raised
                /\ once.files = twice.files) =>
                   /\ twice.nodes = once.nodes
                   /\ twice.relationships = once.relationships
    /\ \A a \in 1..Len(store_relationships) : \A b \in 1..Len(store_relationships) :
           store_relationships[a] = store_relationships[b] => a = b

\* Two model files were built twice in a row against a connected store.
C29_Witness ==
    /\ Len(builder_calls) >= 3
    /\ \E k \in 2..(Len(builder_calls) - 1) :
           /\ builder_calls[k].op = "run_build_process"
           /\ builder_calls[k + 1].op = "run_build_process"
           /\ ~builder_calls[k].raised
           /\ ~builder_calls[k + 1].raised
           /\ Len(builder_calls[k].files) = 2
           /\ builder_calls[k + 1].files = builder_calls[k].files
           /\ Len(builder_calls[k + 1].nodes) >= 5
           /\ Len(builder_calls[k + 1].relationships) >= 5

\* C30: a builder whose connection failed was constructed without an
\* exception, and no method called on it since has raised, read a model file
\* or changed the nodes or relationships of the store.
C30_NoDriverNoOp ==
    driver = "None" =>
        /\ builder_exc = <<>>
        /\ reads = <<>>
        /\ builder_pc = "idle"
        /\ last_merge.made = FALSE
        /\ nodes = builder_calls[1].nodes
        /\ store_relationships = builder_calls[1].relationships
        /\ \A k \in 1..Len(builder_calls) :
               /\ ~builder_calls[k].raised
               /\ builder_calls[k].nodes = builder_calls[1].nodes
               /\ builder_calls[k].relationships = builder_calls[1].relationships

\* On a builder without a driver, over a store that holds a node,
\* clear_graph, create_relationship and run_build_process have been called.
C30_Witness ==
    /\ driver = "None"
    /\ nodes # <<>>
    /\ Len(builder_calls) = 4
    /\ \A op \in {"clear_graph", "create_relationship", "run_build_process"} :
           \E k \in 2..4 : builder_calls[k].op = op

====
